---- MODULE Spec2Model ----
(***************************************************************************)
(* Model of the SRTM REST-to-SOAP gateway: request validation (models.py), *)
(* the REST endpoints (main.py), the Dialect-A action client               *)
(* (soap_client.py), the Dialect-B query client (consulta_client.py), the  *)
(* audit log (database.py) and the inbound webhook (webhook.py).           *)
(*                                                                         *)
(* Texts are sequences of one-character strings, so that strip(),          *)
(* strptime() and strftime() are computed character by character.         *)
(* Python's None is NoneT; an Optional[str] is a record [some, v].         *)
(***************************************************************************)
EXTENDS Integers, Sequences, FiniteSets, TLC

VARIABLES
    soap_client,      \* main.py global: TRUE when SRTMAxisClient was built at startup
    consulta_client,  \* main.py global: TRUE when ConsultaDBAClient was built
    message_counter,  \* SRTMAxisClient.message_counter
    proc_counter,     \* SRTMAxisClient.proc_counter
    now,              \* the clock read by time.time()
    pc,               \* position of the request being handled
    req,              \* the request being handled: [variant, isDict, data]
    reply,            \* what the transport did for this call
    response,         \* the SRTMResponse / ConsultaDBAResponse being built
    start_time,       \* local start_time of _send_request
    raised,           \* exception in flight ([cls, text]) or NoExc
    posts,            \* number of session.post calls made for this request
    innerParsed,      \* TRUE once etree.fromstring ran on the nested document
    finalized,        \* number of times the finally block ran for this call
    http,             \* the HTTP response handed to the REST caller
    audit,            \* the rows of the transactions table
    log_calls,        \* number of database.log_transaction calls for this request
    tasks,            \* the endpoint coroutines of concurrent action requests
    loop,             \* the coroutine the event loop is running, 0 when it is free
    hook_pc,          \* webhook.py: position of the callback being handled
    hook_request,     \* webhook.py: the callback POST, [content_type, body]
    hook_response,    \* webhook.py: what handle_srtm_response returned
    hook_reached,     \* webhook.py: the last step handle_srtm_response came to
    build_pc,         \* soap_client.py: position of the client method building XML
    build_req,        \* soap_client.py: the validated request the method was given
    build_body,       \* soap_client.py: body of the client method, [tag, kids]
    build_xml         \* soap_client.py: what _build_xml returned, [cabecera, cuerpo]

\* the state of one REST request and of the two clients
restVars == <<soap_client, consulta_client, message_counter, proc_counter, now, pc,
              req, reply, response, start_time, raised, posts, innerParsed,
              finalized, http, audit, log_calls>>

\* the state of the concurrent endpoint coroutines
loopVars == <<tasks, loop>>

\* the state of the webhook process
hookVars == <<hook_pc, hook_request, hook_response, hook_reached>>

\* the state of a client method building its document
buildVars == <<build_pc, build_req, build_body, build_xml>>

vars == <<restVars, loopVars, hookVars, buildVars>>

----------------------------------------------------------------------------
(* Bounds of the model *)

MaxDelay == 1
MaxKids == 2
MaxMissing == 1
MaxTasks == 2

----------------------------------------------------------------------------
(* Texts *)

NoneT == [some |-> FALSE, v |-> <<>>]
Some(t) == [some |-> TRUE, v |-> t]

\* Python truthiness of an Optional[str]: None and '' are falsy.
Truthy(o) == o.some /\ o.v # <<>>

Digits == {"0", "1", "2", "3", "4", "5", "6", "7", "8", "9"}

DigitVal(c) ==
    CASE c = "0" -> 0 [] c = "1" -> 1 [] c = "2" -> 2 [] c = "3" -> 3
      [] c = "4" -> 4 [] c = "5" -> 5 [] c = "6" -> 6 [] c = "7" -> 7
      [] c = "8" -> 8 [] c = "9" -> 9

DigitChar(n) ==
    CASE n = 0 -> "0" [] n = 1 -> "1" [] n = 2 -> "2" [] n = 3 -> "3"
      [] n = 4 -> "4" [] n = 5 -> "5" [] n = 6 -> "6" [] n = 7 -> "7"
      [] n = 8 -> "8" [] n = 9 -> "9"

IsDigits(t) == \A i \in 1..Len(t) : t[i] \in Digits

\* int() of the digits t[from..from+width-1]
RECURSIVE NumAt(_, _, _)
NumAt(t, from, width) ==
    IF width = 0 THEN 0
    ELSE 10 * NumAt(t, from, width - 1) + DigitVal(t[from + width - 1])

\* the decimal digits of n, most significant first, without padding
RECURSIVE Decimal(_)
Decimal(n) == IF n < 10 THEN <<DigitChar(n)>> ELSE Decimal(n \div 10) \o <<DigitChar(n % 10)>>

\* zero padding to at least `width` characters, as printf's %0<width>d
RECURSIVE ZeroPad(_, _)
ZeroPad(t, width) == IF Len(t) >= width THEN t ELSE ZeroPad(<<"0">> \o t, width)

Whitespace == {" ", "\n", "\t", "\r"}

RECURSIVE LStrip(_)
LStrip(t) == IF t # <<>> /\ Head(t) \in Whitespace THEN LStrip(Tail(t)) ELSE t

RECURSIVE RStrip(_)
RStrip(t) ==
    IF t # <<>> /\ t[Len(t)] \in Whitespace THEN RStrip(SubSeq(t, 1, Len(t) - 1)) ELSE t

\* str.strip()
Strip(t) == RStrip(LStrip(t))

Ack == <<"a", "c", "k">>

----------------------------------------------------------------------------
(* datetime.strptime(text, '%Y%m%d%H%M%S') and strftime('%Y-%d-%m %H:%M:%S') *)

\* The alternatives of the directive regexes, in the order the regex tries
\* them: %Y is \d\d\d\d; the other directives try their two-character forms
\* before a single digit (%m 1[0-2]|0[1-9]|[1-9], %d 3[0-1]|[1-2]\d|0[1-9]|
\* [1-9]| [1-9], %H 2[0-3]|[0-1]\d|\d, %M [0-5]\d|\d, %S 6[0-1]|[0-5]\d|\d).
TwoDigitMax(k) == CASE k = 2 -> 12 [] k = 3 -> 31 [] k = 4 -> 23 [] k = 5 -> 59 [] k = 6 -> 61
TwoDigitMin(k) == IF k \in {2, 3} THEN 1 ELSE 0
OneDigitMin(k) == IF k \in {2, 3} THEN 1 ELSE 0

DirectiveAlternatives(t, pos, k) ==
    IF k = 1
    THEN IF pos + 3 <= Len(t) /\ IsDigits(SubSeq(t, pos, pos + 3))
         THEN <<[val |-> NumAt(t, pos, 4), width |-> 4]>>
         ELSE <<>>
    ELSE (IF pos + 1 <= Len(t) /\ IsDigits(SubSeq(t, pos, pos + 1))
             /\ NumAt(t, pos, 2) >= TwoDigitMin(k) /\ NumAt(t, pos, 2) <= TwoDigitMax(k)
          THEN <<[val |-> NumAt(t, pos, 2), width |-> 2]>>
          ELSE <<>>)
         \o
         (IF pos <= Len(t) /\ t[pos] \in Digits /\ DigitVal(t[pos]) >= OneDigitMin(k)
          THEN <<[val |-> DigitVal(t[pos]), width |-> 1]>>
          ELSE <<>>)
         \o
         (IF k = 3 /\ pos + 1 <= Len(t) /\ t[pos] = " " /\ t[pos + 1] \in Digits
             /\ DigitVal(t[pos + 1]) >= 1
          THEN <<[val |-> DigitVal(t[pos + 1]), width |-> 2]>>
          ELSE <<>>)

\* re.match of the format's regex from position pos, directive k of 6: the
\* first match in the regex's backtracking order.
RECURSIVE MatchFrom(_, _, _)
RECURSIVE FirstMatch(_, _, _, _)
FirstMatch(t, pos, k, alts) ==
    IF alts = <<>> THEN [ok |-> FALSE, vals |-> <<>>, end |-> pos]
    ELSE LET rest == MatchFrom(t, pos + Head(alts).width, k + 1)
         IN IF rest.ok
            THEN [ok |-> TRUE, vals |-> <<Head(alts).val>> \o rest.vals, end |-> rest.end]
            ELSE FirstMatch(t, pos, k, Tail(alts))
MatchFrom(t, pos, k) ==
    IF k > 6 THEN [ok |-> TRUE, vals |-> <<>>, end |-> pos]
    ELSE FirstMatch(t, pos, k, DirectiveAlternatives(t, pos, k))

IsLeap(y) == (y % 4 = 0) /\ ((y % 100 # 0) \/ (y % 400 = 0))
DaysInMonth(y, m) ==
    IF m = 2 THEN (IF IsLeap(y) THEN 29 ELSE 28)
    ELSE IF m \in {4, 6, 9, 11} THEN 30 ELSE 31

NoDate == [ok |-> FALSE, Y |-> 0, m |-> 0, d |-> 0, H |-> 0, M |-> 0, S |-> 0]

\* datetime.strptime: ok = FALSE stands for the ValueError it raises (no
\* match, unconverted data remains, or a field datetime() refuses).
Strptime(t) ==
    LET f == MatchFrom(t, 1, 1)
    IN IF ~f.ok \/ f.end # Len(t) + 1 THEN NoDate
       ELSE LET v == f.vals
            IN IF v[1] < 1 \/ v[3] > DaysInMonth(v[1], v[2]) \/ v[6] > 59 THEN NoDate
               ELSE [ok |-> TRUE, Y |-> v[1], m |-> v[2], d |-> v[3],
                     H |-> v[4], M |-> v[5], S |-> v[6]]

\* dt.strftime('%Y-%d-%m %H:%M:%S'). %d %m %H %M %S are zero-padded to two
\* digits. %Y is handed to the C library: glibc prints the year without
\* padding (999), other libraries pad to four digits; padsYear is the
\* platform's choice.
StrftimeSwapped(dt, padsYear) ==
    (IF padsYear THEN ZeroPad(Decimal(dt.Y), 4) ELSE Decimal(dt.Y))
    \o <<"-">> \o ZeroPad(Decimal(dt.d), 2)
    \o <<"-">> \o ZeroPad(Decimal(dt.m), 2)
    \o <<" ">> \o ZeroPad(Decimal(dt.H), 2)
    \o <<":">> \o ZeroPad(Decimal(dt.M), 2)
    \o <<":">> \o ZeroPad(Decimal(dt.S), 2)

----------------------------------------------------------------------------
(* Request variants and their validators (models.py) *)

ActionVariants == {"registro_positivo", "registro_negativo", "cancelacion_negativo",
                   "modificacion_positivo", "cancelacion_positivo"}
QueryVariants == {"consulta_positiva", "consulta_negativa", "consulta_negativa_tipo_reporte"}
Variants == ActionVariants \cup QueryVariants

RegistroPositivoFields ==
    {"imei", "tipo_usuario_propietario", "tipo_identificacion_propietario",
     "identificacion_propietario", "nombre_razon_social_propietario",
     "direccion_propietario", "telefono_contacto_propietario", "observaciones",
     "imsi", "msisdn"}

RegistroNegativoFields ==
    {"imei", "tipo_reporte", "nombre_reporte", "tipo_identificacion_reporte",
     "identificacion_reporte", "telefono_reporte", "direccion_reporte",
     "ciudad_reporte", "departamento_reporte", "correo_electronico",
     "observaciones", "empleo_violencia", "utilizacion_armas", "victima_menor_edad"}

CancelacionNegativoFields == {"imei", "fecha_reporte", "observaciones"}

ModificacionPositivoFields ==
    {"imei", "tipo_modificacion", "tipo_usuario_propietario",
     "tipo_identificacion_propietario", "identificacion_propietario",
     "nombre_razon_social_propietario", "direccion_propietario",
     "telefono_contacto_propietario", "tipo_usuario_autorizado", "imsi", "msisdn",
     "observaciones", "tipo_identificacion_propietario_anterior",
     "identificacion_propietario_anterior", "tipo_identificacion_autorizado",
     "identificacion_autorizado", "nombre_razon_social_autorizado",
     "direccion_autorizado", "telefono_contacto_autorizado"}

CancelacionPositivoFields ==
    {"imei", "tipo_usuario_propietario", "tipo_identificacion_propietario",
     "identificacion_propietario", "observaciones"}

ConsultaPositivaFields == {"imei", "tipo_identificacion_propietario", "identificacion_propietario"}

ConsultaNegativaFields == {"imei"}

Fields(v) ==
    CASE v = "registro_positivo" -> RegistroPositivoFields
      [] v = "registro_negativo" -> RegistroNegativoFields
      [] v = "cancelacion_negativo" -> CancelacionNegativoFields
      [] v = "modificacion_positivo" -> ModificacionPositivoFields
      [] v = "cancelacion_positivo" -> CancelacionPositivoFields
      [] v = "consulta_positiva" -> ConsultaPositivaFields
      [] OTHER -> ConsultaNegativaFields

\* The fields each variant always requires: the lists the validators walk,
\* and the fields declared with Field(...) in the query models.
RequiredFields(v) ==
    CASE v = "registro_positivo" ->
            {"imei", "tipo_usuario_propietario", "tipo_identificacion_propietario",
             "identificacion_propietario", "nombre_razon_social_propietario",
             "direccion_propietario", "telefono_contacto_propietario", "observaciones"}
      [] v = "registro_negativo" ->
            {"imei", "tipo_reporte", "nombre_reporte", "tipo_identificacion_reporte",
             "identificacion_reporte", "telefono_reporte", "direccion_reporte",
             "ciudad_reporte", "departamento_reporte", "correo_electronico",
             "observaciones"}
      [] v = "cancelacion_negativo" -> {"imei", "fecha_reporte", "observaciones"}
      [] v = "modificacion_positivo" ->
            {"imei", "tipo_modificacion", "tipo_usuario_propietario",
             "tipo_identificacion_propietario", "identificacion_propietario",
             "nombre_razon_social_propietario", "direccion_propietario",
             "telefono_contacto_propietario", "tipo_usuario_autorizado"}
      [] v = "cancelacion_positivo" ->
            {"imei", "tipo_usuario_propietario", "tipo_identificacion_propietario",
             "identificacion_propietario", "observaciones"}
      [] v = "consulta_positiva" ->
            {"imei", "tipo_identificacion_propietario", "identificacion_propietario"}
      [] OTHER -> {"imei"}

\* data.get(field) is None
IsNone(data, f) == ~data[f].some

\* data.get(field) == text
Is(data, f, text) == data[f].some /\ data[f].v = text

\* for field in required_fields: if data.get(field) is None: raise ValueError
HasRequired(v, data) == \A f \in RequiredFields(v) : ~IsNone(data, f)

\* re.match(r'^\d{14}$', text): $ also matches before a final newline
MatchesFourteenDigits(t) ==
    \/ Len(t) = 14 /\ IsDigits(t)
    \/ Len(t) = 15 /\ IsDigits(SubSeq(t, 1, 14)) /\ t[15] = "\n"

\* A validator that forgets observaciones.
RegistroPositivo_check_required_fields_NoObservaciones(data) ==
    \A f \in RequiredFields("registro_positivo") \ {"observaciones"} : ~IsNone(data, f)

RegistroPositivo_check_required_fields(data) == HasRequired("registro_positivo", data)

\* A validator that stops at empleo_violencia.
RegistroNegativo_check_required_and_robo_fields_NoNested(data) ==
    /\ HasRequired("registro_negativo", data)
    /\ Is(data, "tipo_reporte", <<"1">>) => ~IsNone(data, "empleo_violencia")

RegistroNegativo_check_required_and_robo_fields(data) ==
    /\ HasRequired("registro_negativo", data)
    /\ Is(data, "tipo_reporte", <<"1">>) =>
          /\ ~IsNone(data, "empleo_violencia")
          /\ Is(data, "empleo_violencia", <<"1">>) =>
                /\ ~IsNone(data, "utilizacion_armas")
                /\ ~IsNone(data, "victima_menor_edad")

CancelacionNegativo_check_required_fields(data) ==
    /\ HasRequired("cancelacion_negativo", data)
    /\ Truthy(data["fecha_reporte"]) =>
          /\ MatchesFourteenDigits(data["fecha_reporte"].v)
          /\ Strptime(data["fecha_reporte"].v).ok

\* autorizado_fields of check_all_fields
AutorizadoFields ==
    {"tipo_identificacion_autorizado", "identificacion_autorizado",
     "nombre_razon_social_autorizado", "direccion_autorizado",
     "telefono_contacto_autorizado"}

\* A validator that asks for the previous owner only when the holder changes.
ModificacionPositivo_check_all_fields_OnlyTitularidad(data) ==
    /\ HasRequired("modificacion_positivo", data)
    /\ Is(data, "tipo_modificacion", <<"2">>) =>
          /\ ~IsNone(data, "tipo_identificacion_propietario_anterior")
          /\ ~IsNone(data, "identificacion_propietario_anterior")
    /\ ~Is(data, "tipo_usuario_autorizado", <<>>) =>
          \A f \in AutorizadoFields : ~IsNone(data, f)

ModificacionPositivo_check_all_fields(data) ==
    /\ HasRequired("modificacion_positivo", data)
    /\ (Is(data, "tipo_modificacion", <<"2">>) \/ Is(data, "tipo_modificacion", <<"3">>)) =>
          /\ ~IsNone(data, "tipo_identificacion_propietario_anterior")
          /\ ~IsNone(data, "identificacion_propietario_anterior")
    /\ ~Is(data, "tipo_usuario_autorizado", <<>>) =>
          \A f \in AutorizadoFields : ~IsNone(data, f)

CancelacionPositivo_check_required_fields(data) == HasRequired("cancelacion_positivo", data)

\* ConsultaPositivaRequest: three Field(...) strings, imei of exactly 15 characters
ConsultaPositivaRequest(data) ==
    /\ HasRequired("consulta_positiva", data)
    /\ Len(data["imei"].v) = 15

\* Path(..., min_length=15, max_length=15, pattern="^[0-9]*$")
ImeiPath(data) ==
    /\ HasRequired("consulta_negativa", data)
    /\ Len(data["imei"].v) = 15
    /\ IsDigits(data["imei"].v)

\* The model_validator(mode='before') of the variant: a payload that is not a
\* dict is returned untouched.
BeforeValidator(r) ==
    IF ~r.isDict THEN TRUE
    ELSE CASE r.variant = "registro_positivo" -> RegistroPositivo_check_required_fields(r.data)
           [] r.variant = "registro_negativo" -> RegistroNegativo_check_required_and_robo_fields(r.data)
           [] r.variant = "cancelacion_negativo" -> CancelacionNegativo_check_required_fields(r.data)
           [] r.variant = "modificacion_positivo" -> ModificacionPositivo_check_all_fields(r.data)
           [] r.variant = "cancelacion_positivo" -> CancelacionPositivo_check_required_fields(r.data)
           [] OTHER -> TRUE

\* What the framework does with the parameter declarations of the endpoint:
\* the body must be an object, then the before-validator and the field
\* constraints of the model run.
RequestValid(r) ==
    /\ r.isDict
    /\ BeforeValidator(r)
    /\ r.variant = "consulta_positiva" => ConsultaPositivaRequest(r.data)
    /\ r.variant \in {"consulta_negativa", "consulta_negativa_tipo_reporte"} => ImeiPath(r.data)

----------------------------------------------------------------------------
(* XML trees as lxml hands them out: [tag, text, kids]; text is None for an *)
(* element without character data.                                         *)

Node(tag, text, kids) == [tag |-> tag, text |-> text, kids |-> kids]
NoNode == Node("", NoneT, <<>>)

\* every element beneath the given children, in document order
RECURSIVE Descendants(_)
Descendants(kids) ==
    IF kids = <<>> THEN <<>>
    ELSE <<Head(kids)>> \o Descendants(Head(kids).kids) \o Descendants(Tail(kids))

RECURSIVE FirstTagged(_, _)
FirstTagged(nodes, tag) ==
    IF nodes = <<>> THEN [found |-> FALSE, node |-> NoNode]
    ELSE IF Head(nodes).tag = tag THEN [found |-> TRUE, node |-> Head(nodes)]
    ELSE FirstTagged(Tail(nodes), tag)

\* element.find('.//{*}tag'): the first descendant with that local name; the
\* element itself is not searched.
Find(element, tag) == FirstTagged(Descendants(element.kids), tag)

\* the text findtext hands out for a match: '' when the element has no text
TextOf(match, default) ==
    IF ~match.found THEN default
    ELSE IF match.node.text.some THEN match.node.text.v ELSE <<>>

\* element.findtext('{*}tag', default): among the direct children only
FindTextChild(element, tag, default) == TextOf(FirstTagged(element.kids, tag), default)

\* element.findtext('.//{*}tag', default)
FindTextDeep(element, tag, default) == TextOf(Find(element, tag), default)

NA == <<"N", "/", "A">>

----------------------------------------------------------------------------
(* Exceptions *)

NoExc == [cls |-> "none", text |-> <<>>, detail |-> <<>>]
Exc(cls, text) == [cls |-> cls, text |-> text, detail |-> <<>>]

\* Classes deriving from Exception among those the calls can raise.
ExceptionClasses == {"Timeout", "ConnectionError", "HTTPError", "XMLSyntaxError",
                     "ValueError", "AttributeError", "TypeError", "Fault"}

\* str(HTTPError) starts with the status code
HTTPErrorOf(status) == Exc("HTTPError", Decimal(status))

\* response.raise_for_status(): raises for 4xx and 5xx
RaisesForStatus(status) == status >= 400 /\ status < 600

----------------------------------------------------------------------------
(* The outcome record: SRTMResponse and ConsultaDBAResponse *)

Msg(fmt, arg) == [fmt |-> fmt, arg |-> arg]

NoRaw == [kind |-> "none", text |-> <<>>, items |-> <<>>, body |-> NoneT]
RawText(t) == [kind |-> "text", text |-> t, items |-> <<>>, body |-> NoneT]
RawList(items, body) == [kind |-> "list", text |-> <<>>, items |-> items, body |-> body]

\* the dataclass defaults, with the timestamp passed by _send_request
NewResponse(timestamp) ==
    [success |-> FALSE, http_status |-> 500, response_time_ms |-> 0,
     message |-> Msg("An internal error occurred.", <<>>),
     error_code |-> NoneT, raw_response |-> NoRaw, timestamp |-> timestamp]

\* os.getenv("MSG_TYPE_..."): the message-type code of each action
MsgType(v) ==
    CASE v = "registro_positivo" -> <<"1", "0", "0", "1">>
      [] v = "registro_negativo" -> <<"2", "0", "0", "1">>
      [] v = "cancelacion_negativo" -> <<"3", "0", "0", "1">>
      [] v = "modificacion_positivo" -> <<"4", "0", "0", "1">>
      [] v = "cancelacion_positivo" -> <<"5", "0", "0", "1">>
      [] OTHER -> <<>>

----------------------------------------------------------------------------
(* Dialect A: SRTMAxisClient._send_request (soap_client.py) *)

\* A classifier that keeps the text as error code when it is ack, too.
SRTM_Classify_ErrorCodeOnAck(resp, msg_type, result_text) ==
    IF result_text = Ack
    THEN [resp EXCEPT !.raw_response = RawText(result_text),
                      !.success = TRUE,
                      !.message = Msg("Solicitud {} aceptada.", msg_type),
                      !.error_code = Some(result_text)]
    ELSE [resp EXCEPT !.raw_response = RawText(result_text),
                      !.success = FALSE,
                      !.message = Msg("Solicitud {} rechazada por el servidor.", msg_type),
                      !.error_code = Some(result_text)]

\* lines 161-168: the outcome for the stripped text of receiveMessageReturn
SRTM_Classify(resp, msg_type, result_text) ==
    IF result_text = Ack
    THEN [resp EXCEPT !.raw_response = RawText(result_text),
                      !.success = TRUE,
                      !.message = Msg("Solicitud {} aceptada.", msg_type)]
    ELSE [resp EXCEPT !.raw_response = RawText(result_text),
                      !.success = FALSE,
                      !.message = Msg("Solicitud {} rechazada por el servidor.", msg_type),
                      !.error_code = Some(result_text)]

\* The text taken as it is, without strip().
SRTM_ResultText_Unstripped(root) == FindTextDeep(root, "receiveMessageReturn", <<>>)

\* res_env.findtext('.//{*}receiveMessageReturn', default='').strip()
SRTM_ResultText(root) == Strip(FindTextDeep(root, "receiveMessageReturn", <<>>))

\* The try block, lines 134-168, for what the transport did (rep): the
\* outcome so far and the exception it raises, if any.
SRTM_TryBody(resp, rep, msg_type) ==
    IF rep.kind = "fault" THEN [response |-> resp, raised |-> rep.exc]
    ELSE LET r1 == [resp EXCEPT !.http_status = rep.status]
         IN IF RaisesForStatus(rep.status)
            THEN [response |-> r1, raised |-> HTTPErrorOf(rep.status)]
            ELSE IF ~rep.body.wf
            THEN [response |-> r1, raised |-> Exc("XMLSyntaxError", rep.body.err)]
            ELSE [response |-> SRTM_Classify(r1, msg_type, SRTM_ResultText(rep.body.root)),
                  raised |-> NoExc]

\* except Fault / except Exception: the classes the two clauses catch
SRTM_Catches(exc) == exc.cls \in ExceptionClasses

\* lines 170-176: the handler that runs for a caught exception
SRTM_Except(resp, exc) ==
    IF exc.cls = "Fault"
    THEN [resp EXCEPT !.message = Msg("Error SOAP: {}", exc.text),
                      !.raw_response = RawText(exc.detail)]
    ELSE [resp EXCEPT !.message = Msg("Error inesperado en la comunicacion: {}", exc.text)]

----------------------------------------------------------------------------
(* Dialect B: ConsultaDBAClient._send_request (consulta_client.py) *)

OperationName(v) ==
    CASE v = "consulta_positiva" -> "consultaBDAPositiva"
      [] v = "consulta_negativa" -> "consultaBDANegativa"
      [] v = "consulta_negativa_tipo_reporte" -> "consultaBDANegativaTipoReporte"
      [] OTHER -> ""

\* f'{query_operation_name}Return'
ReturnTag(op) == op \o "Return"

ErrorTag == "RespuestaConsultaBDAError"
NegativaTag == "RegistroBDANegativa"
PositivaTag == "RegistroBDAPositiva"

T_ErrorDesconocido == <<"E", "r", "r", "o", "r", " ", "d", "e", "s", "c", "o", "n", "o", "c", "i", "d", "o">>
T_RegistroEncontrado == <<"R", "e", "g", "i", "s", "t", "r", "o", " ", "E", "n", "c", "o", "n", "t", "r", "a", "d", "o">>
T_RegistroPositivoEncontrado == <<"R", "e", "g", "i", "s", "t", "r", "o", " ", "P", "o", "s", "i", "t", "i", "v", "o", " ", "E", "n", "c", "o", "n", "t", "r", "a", "d", "o">>
T_Dots == <<".", ".", ".">>
T_EstructuraDesconocida == <<"E", "s", "t", "r", "u", "c", "t", "u", "r", "a", " ", "d", "e", " ", "r", "e", "s", "p", "u", "e", "s", "t", "a", " ", "d", "e", "s", "c", "o", "n", "o", "c", "i", "d", "a">>
T_TagVacio == <<"T", "a", "g", " ", "d", "e", " ", "r", "e", "t", "o", "r", "n", "o", " ", "v", "a", "c", "i", "o", " ", "o", " ", "n", "o", " ", "e", "n", "c", "o", "n", "t", "r", "a", "d", "o", ".">>

\* The nested document is written in a compact notation: "<", the root's
\* code, one code per child of the root, and optionally "|" and the text of
\* FechaReporte of the negative records. Anything else is not well formed.
RootCodes == {"R", "E"}
KidCodes == {"e", "b", "n", "p", "t", "X", "N"}

RootTag(c) == IF c = "E" THEN ErrorTag ELSE "RespuestaConsultaBDA"

Leaf(tag, t) == Node(tag, IF t = <<>> THEN NoneT ELSE Some(t), <<>>)

ErrorNode(code, desc) ==
    Node(ErrorTag, NoneT, <<Leaf("CodigoError", code), Leaf("DescripcionError", desc)>>)

NegativaNode(date) ==
    Node(NegativaTag, NoneT,
         <<Leaf("Imei", <<"8", "6", "2">>), Leaf("Tecnologia", <<"0", "1">>)>>
         \o (IF date.some THEN <<Leaf("FechaReporte", date.v)>> ELSE <<>>))

PositivaNode == Node(PositivaTag, NoneT, <<>>)

Wrapped(n) == Node("CuerpoRespuesta", NoneT, <<n>>)

KidNode(c, date) ==
    CASE c = "e" -> ErrorNode(<<"9", "9">>, <<"X">>)
      [] c = "b" -> Node(ErrorTag, NoneT, <<>>)
      [] c = "n" -> NegativaNode(date)
      [] c = "p" -> PositivaNode
      [] c = "t" -> Leaf("TipoRespuesta", <<"1">>)
      [] c = "X" -> Wrapped(ErrorNode(<<"9", "9">>, <<"X">>))
      [] c = "N" -> Wrapped(NegativaNode(date))

RECURSIVE IndexOf(_, _, _)
IndexOf(t, c, from) ==
    IF from > Len(t) THEN 0 ELSE IF t[from] = c THEN from ELSE IndexOf(t, c, from + 1)

\* etree.fromstring(result_element.text.encode('utf-8')): ok = FALSE stands
\* for the XMLSyntaxError it raises.
ParseInner(text) ==
    LET bar == IndexOf(text, "|", 1)
        kidsEnd == IF bar = 0 THEN Len(text) ELSE bar - 1
        date == IF bar = 0 THEN NoneT ELSE Some(SubSeq(text, bar + 1, Len(text)))
    IN IF Len(text) >= 2 /\ text[1] = "<" /\ text[2] \in RootCodes
          /\ \A i \in 3..kidsEnd : text[i] \in KidCodes
       THEN [ok |-> TRUE,
             root |-> Node(RootTag(text[2]), NoneT,
                           [i \in 1..(kidsEnd - 2) |-> KidNode(text[i + 2], date)])]
       ELSE [ok |-> FALSE, root |-> NoNode]

\* The code and the description stored in each other's place.
Consulta_ErrorOutcome_Swapped(resp, error_node) ==
    LET codigo_error == FindTextChild(error_node, "CodigoError", NA)
        desc_error == FindTextChild(error_node, "DescripcionError", T_ErrorDesconocido)
    IN [response |->
            [resp EXCEPT !.success = FALSE,
                         !.message = Msg("Error de la BDA: {}", codigo_error),
                         !.error_code = Some(desc_error),
                         !.raw_response = RawList(<<<<"CodigoError", codigo_error>>,
                                                    <<"DescripcionError", desc_error>>>>,
                                                  NoneT)],
        raised |-> NoExc]

\* lines 94-101
Consulta_ErrorOutcome(resp, error_node) ==
    LET codigo_error == FindTextChild(error_node, "CodigoError", NA)
        desc_error == FindTextChild(error_node, "DescripcionError", T_ErrorDesconocido)
    IN [response |->
            [resp EXCEPT !.success = FALSE,
                         !.message = Msg("Error de la BDA: {}", desc_error),
                         !.error_code = Some(codigo_error),
                         !.raw_response = RawList(<<<<"CodigoError", codigo_error>>,
                                                    <<"DescripcionError", desc_error>>>>,
                                                  NoneT)],
        raised |-> NoExc]

\* lines 103-116
Consulta_NegativaOutcome(resp, root, registro_neg_node, padsYear) ==
    LET fecha_reporte_raw == FindTextChild(registro_neg_node, "FechaReporte", <<>>)
        dt_obj == Strptime(fecha_reporte_raw)
    IN IF fecha_reporte_raw # <<>> /\ ~dt_obj.ok
       THEN [response |-> resp, raised |-> Exc("ValueError", fecha_reporte_raw)]
       ELSE [response |->
                [resp EXCEPT
                    !.success = TRUE,
                    !.message = Msg("Consulta negativa procesada exitosamente.", <<>>),
                    !.raw_response = RawList(
                        <<<<"TipoRespuesta", FindTextDeep(root, "TipoRespuesta", NA)>>,
                          <<"RespuestaConsultaBDANegativa", T_RegistroEncontrado>>,
                          <<"Imei", FindTextChild(registro_neg_node, "Imei", NA)>>,
                          <<"Tecnologia", FindTextChild(registro_neg_node, "Tecnologia", NA)>>,
                          <<"FechaReporte",
                            IF fecha_reporte_raw # <<>>
                            THEN StrftimeSwapped(dt_obj, padsYear) ELSE NA>>>>,
                        NoneT)],
             raised |-> NoExc]

\* lines 118-122
Consulta_PositivaOutcome(resp) ==
    [response |->
        [resp EXCEPT
            !.success = TRUE,
            !.message = Msg("Consulta positiva procesada exitosamente (Estructura de datos pendiente).", <<>>),
            !.raw_response = RawList(<<<<"status", T_RegistroPositivoEncontrado>>,
                                       <<"data", T_Dots>>>>, NoneT)],
     raised |-> NoExc]

\* The nested text left out of the outcome.
Consulta_UnknownOutcome_NoBody(resp, text) ==
    [response |->
        [resp EXCEPT
            !.success = FALSE,
            !.message = Msg("La estructura de la respuesta no coincide con los patrones conocidos.", <<>>),
            !.raw_response = RawList(<<<<"error", T_EstructuraDesconocida>>>>, NoneT)],
     raised |-> NoExc]

\* lines 124-127
Consulta_UnknownOutcome(resp, text) ==
    [response |->
        [resp EXCEPT
            !.success = FALSE,
            !.message = Msg("La estructura de la respuesta no coincide con los patrones conocidos.", <<>>),
            !.raw_response = RawList(<<<<"error", T_EstructuraDesconocida>>>>, Some(text))],
     raised |-> NoExc]

\* lines 129-132
Consulta_NoResults(resp) ==
    [response |->
        [resp EXCEPT
            !.success = FALSE,
            !.message = Msg("La consulta no retorno resultados.", <<>>),
            !.raw_response = RawList(<<<<"error", T_TagVacio>>>>, NoneT)],
     raised |-> NoExc]

\* The negative record looked at before the error marker.
Consulta_Classify_NegativeFirst(resp, inner_xml_root, text, padsYear) ==
    LET error_node == Find(inner_xml_root, ErrorTag)
        registro_neg_node == Find(inner_xml_root, NegativaTag)
        registro_pos_node == Find(inner_xml_root, PositivaTag)
    IN IF registro_neg_node.found
       THEN Consulta_NegativaOutcome(resp, inner_xml_root, registro_neg_node.node, padsYear)
       ELSE IF error_node.found THEN Consulta_ErrorOutcome(resp, error_node.node)
       ELSE IF registro_pos_node.found THEN Consulta_PositivaOutcome(resp)
       ELSE Consulta_UnknownOutcome(resp, text)

\* lines 89-127: the marker subtrees, searched in the order error, negative
\* record, positive record
Consulta_Classify(resp, inner_xml_root, text, padsYear) ==
    LET error_node == Find(inner_xml_root, ErrorTag)
        registro_neg_node == Find(inner_xml_root, NegativaTag)
        registro_pos_node == Find(inner_xml_root, PositivaTag)
    IN IF error_node.found THEN Consulta_ErrorOutcome(resp, error_node.node)
       ELSE IF registro_neg_node.found
       THEN Consulta_NegativaOutcome(resp, inner_xml_root, registro_neg_node.node, padsYear)
       ELSE IF registro_pos_node.found THEN Consulta_PositivaOutcome(resp)
       ELSE Consulta_UnknownOutcome(resp, text)

\* Only the presence of the element is tested, not its text.
Consulta_HasResultText_FoundOnly(result_element) == result_element.found

\* line 85: result_element is not None and result_element.text
Consulta_HasResultText(result_element) ==
    result_element.found /\ Truthy(result_element.node.text)

\* The try block, lines 76-132: the outcome so far, the exception raised if
\* any, and whether the nested document was handed to the parser.
Consulta_TryBody(resp, rep, op, padsYear) ==
    IF rep.kind = "fault"
    THEN [response |-> resp, raised |-> rep.exc, parsed |-> FALSE]
    ELSE LET r1 == [resp EXCEPT !.http_status = rep.status]
         IN IF RaisesForStatus(rep.status)
            THEN [response |-> r1, raised |-> HTTPErrorOf(rep.status), parsed |-> FALSE]
            ELSE IF ~rep.body.wf
            THEN [response |-> r1, raised |-> Exc("XMLSyntaxError", rep.body.err),
                  parsed |-> FALSE]
            ELSE LET result_element == Find(rep.body.root, ReturnTag(op))
                 IN IF Consulta_HasResultText(result_element)
                    THEN IF ~result_element.node.text.some
                         THEN [response |-> r1, raised |-> Exc("AttributeError", <<>>),
                               parsed |-> FALSE]
                         ELSE LET inner == ParseInner(result_element.node.text.v)
                              IN IF ~inner.ok
                                 THEN [response |-> r1,
                                       raised |-> Exc("XMLSyntaxError", <<>>),
                                       parsed |-> TRUE]
                                 ELSE LET out == Consulta_Classify(r1, inner.root,
                                                     result_element.node.text.v, padsYear)
                                      IN [response |-> out.response, raised |-> out.raised,
                                          parsed |-> TRUE]
                    ELSE LET out == Consulta_NoResults(r1)
                         IN [response |-> out.response, raised |-> NoExc, parsed |-> FALSE]

\* A handler that catches only what the transport raises.
Consulta_Catches_TransportOnly(exc) == exc.cls \in {"Timeout", "ConnectionError", "HTTPError"}

\* except Exception
Consulta_Catches(exc) == exc.cls \in ExceptionClasses

\* lines 134-137
Consulta_Except(resp, exc) ==
    [resp EXCEPT !.message = Msg("Error inesperado en el procesamiento.", <<>>),
                 !.http_status = 500]

----------------------------------------------------------------------------
(* Inputs: the requests callers send and what the registry answers *)

EmptyData == [f \in {} |-> NoneT]

RECURSIVE SetsUpTo(_, _)
SetsUpTo(S, n) ==
    IF n = 0 THEN {{}}
    ELSE LET smaller == SetsUpTo(S, n - 1)
         IN smaller \cup {p \cup {f} : p \in smaller, f \in S}

Imei15 == <<"8", "6", "2", "0", "5", "5", "0", "5", "9", "4", "4", "7", "4", "9", "1">>
ImeiInputs == {Imei15, Tail(Imei15), Imei15 \o <<"7">>, <<"A">> \o Tail(Imei15)}

SampleDate == <<"2", "0", "2", "4", "1", "0", "2", "5", "1", "4", "3", "0", "0", "0">>
BadDate == <<"2", "0", "2", "4", "1", "3", "2", "5", "1", "4", "3", "0", "0", "0">>

DateTexts ==
    {y \o m \o d \o h \o <<"3", "0">> \o sec :
        y \in {<<"2", "0", "2", "4">>, <<"2", "0", "2", "3">>, <<"0", "9", "9", "9">>},
        m \in {<<"0", "2">>, <<"1", "0">>, <<"1", "3">>},
        d \in {<<"2", "5">>, <<"2", "9">>, <<"3", "1">>, <<"0", "0">>},
        h \in {<<"1", "4">>, <<"2", "4">>},
        sec \in {<<"0", "0">>, <<"6", "0">>}}
    \cup {<<>>, SubSeq(SampleDate, 1, 13), SampleDate \o <<"\n">>, <<"h", "o", "y">>}

DefaultValue(f) ==
    IF f = "imei" THEN Imei15
    ELSE IF f = "fecha_reporte" THEN SampleDate
    ELSE IF f \in {"tipo_usuario_propietario", "tipo_identificacion_propietario",
                   "tipo_reporte", "tipo_modificacion", "tipo_usuario_autorizado",
                   "tipo_identificacion_reporte", "tipo_identificacion_autorizado",
                   "tipo_identificacion_propietario_anterior", "empleo_violencia",
                   "utilizacion_armas", "victima_menor_edad"} THEN <<"1">>
    ELSE <<"x">>

\* The values a caller varies, per variant: each is a partial payload laid
\* over the default one.
Variations(v) ==
    CASE v = "registro_negativo" ->
            {[tipo_reporte |-> Some(t), empleo_violencia |-> Some(e)] :
                t \in {<<"1">>, <<"2">>}, e \in {<<"0">>, <<"1">>}}
      [] v = "cancelacion_negativo" ->
            {[fecha_reporte |-> Some(d)] :
                d \in {SampleDate, BadDate, <<>>, SubSeq(SampleDate, 1, 13),
                       SampleDate \o <<"\n">>}}
      [] v = "modificacion_positivo" ->
            {[tipo_modificacion |-> Some(t), tipo_usuario_autorizado |-> Some(<<"1">>)] :
                t \in {<<"1">>, <<"2">>, <<"3">>}}
            \cup {[tipo_modificacion |-> Some(<<"2">>), tipo_usuario_autorizado |-> Some(a)] :
                     a \in {<<>>, <<"0">>, <<"2">>}}
            \cup {[f \in {"tipo_usuario_autorizado"} \cup AutorizadoFields |->
                        IF f = "tipo_usuario_autorizado" THEN Some(a) ELSE NoneT] :
                     a \in {<<>>, <<"0">>, <<"1">>, <<"2">>}}
      [] v \in QueryVariants -> {[imei |-> Some(i)] : i \in ImeiInputs}
      [] OTHER -> {EmptyData}

\* The fields a caller may leave out: a path parameter is always there.
Omittable(v) ==
    IF v \in {"consulta_negativa", "consulta_negativa_tipo_reporte"} THEN {} ELSE Fields(v)

Payload(v, variation, missing) ==
    [f \in Fields(v) |->
        IF f \in missing THEN NoneT
        ELSE IF f \in DOMAIN variation THEN variation[f]
        ELSE Some(DefaultValue(f))]

Requests ==
    UNION {{[variant |-> v, isDict |-> TRUE, data |-> Payload(v, k, m)] :
               k \in Variations(v), m \in SetsUpTo(Omittable(v), MaxMissing)} : v \in Variants}
    \cup {[variant |-> v, isDict |-> FALSE, data |-> Payload(v, EmptyData, Fields(v))] :
               v \in ActionVariants \cup {"consulta_positiva"}}

NoReq == [variant |-> "none", isDict |-> FALSE, data |-> EmptyData]

ExcTexts == {<<"e", "1">>, <<"e", "2">>}
TransportFaults == {Exc(c, t) : c \in {"Timeout", "ConnectionError"}, t \in ExcTexts}

OkStatuses == {200}
ErrorStatuses == {404, 500, 503}

NoBody == [wf |-> FALSE, root |-> NoNode, err |-> <<>>]

\* a body etree.fromstring refuses; err is the text of its XMLSyntaxError
Unparseable(err) == [wf |-> FALSE, root |-> NoNode, err |-> err]
Fault(e) == [kind |-> "fault", exc |-> e, status |-> 0, body |-> NoBody]
HttpReply(status, body) == [kind |-> "http", exc |-> NoExc, status |-> status, body |-> body]
NoReply == [kind |-> "none", exc |-> NoExc, status |-> 0, body |-> NoBody]

Envelope(kids) ==
    [wf |-> TRUE,
     root |-> Node("Envelope", NoneT, <<Node("Body", NoneT, <<Node("Response", NoneT, kids)>>)>>),
     err |-> <<>>]

ReturnTexts ==
    {<<>>, Ack, <<" ">> \o Ack, Ack \o <<"\n">>, <<"n">> \o Ack, Ack \o <<"k">>,
     <<"A", "C", "K">>, <<"E", "1">>, <<" ", "E", "1">>, <<" ">>}

ActionBodies ==
    {NoBody, Unparseable(<<"x", "1">>), Envelope(<<>>),
     [wf |-> TRUE, root |-> Leaf("receiveMessageReturn", Ack), err |-> <<>>]}
    \cup {Envelope(<<Leaf("receiveMessageReturn", t)>>) : t \in ReturnTexts}

\* the body of a structured SOAP fault: Envelope / Body / Fault with its
\* faultcode and faultstring
SoapFaultBody(faultstring) ==
    [wf |-> TRUE,
     root |-> Node("Envelope", NoneT,
                   <<Node("Body", NoneT,
                          <<Node("Fault", NoneT,
                                 <<Leaf("faultcode", <<"S">>),
                                   Leaf("faultstring", faultstring)>>)>>)>>),
     err |-> <<>>]

ActionReplies ==
    {Fault(e) : e \in TransportFaults}
    \cup {HttpReply(s, SoapFaultBody(<<"f", "1">>)) : s \in {200, 500}}
    \cup {HttpReply(s, b) : s \in OkStatuses, b \in ActionBodies}
    \cup {HttpReply(s, b) : s \in ErrorStatuses, b \in {NoBody, Envelope(<<Leaf("receiveMessageReturn", Ack)>>)}}

KidSeqs == UNION {[1..n -> KidCodes] : n \in 0..MaxKids}

DocText(r, kids, date) ==
    <<"<", r>> \o kids \o (IF date.some THEN <<"|">> \o date.v ELSE <<>>)

HasNegativa(kids) == \E i \in 1..Len(kids) : kids[i] \in {"n", "N"}

InnerTexts ==
    {<<" ">>, <<"g">>, <<"<">>, <<"<", "R", "?">>}
    \cup UNION {{DocText(r, k, d) :
                    d \in IF HasNegativa(k) THEN {Some(SampleDate), Some(BadDate)} ELSE {NoneT}} :
                r \in RootCodes, k \in KidSeqs}
    \cup {DocText("R", <<"n">>, d) : d \in {NoneT} \cup {Some(t) : t \in DateTexts}}

QueryBodies(op) ==
    {NoBody, Unparseable(<<"x", "1">>), Envelope(<<>>),
     Envelope(<<Node(ReturnTag(op), NoneT, <<>>)>>)}
    \cup {Envelope(<<Leaf(ReturnTag(op), t)>>) : t \in InnerTexts}

QueryReplies(op) ==
    {Fault(e) : e \in TransportFaults}
    \cup {HttpReply(s, b) : s \in OkStatuses, b \in QueryBodies(op)}
    \cup {HttpReply(s, b) : s \in ErrorStatuses, b \in {NoBody, Envelope(<<Leaf(ReturnTag(op), DocText("R", <<"p">>, NoneT))>>)}}

----------------------------------------------------------------------------
(* The REST layer (main.py) and the state machine of one request *)

Dialect(v) == IF v \in ActionVariants THEN "A" ELSE "B"

SeedModulus == 100000
SeedValues == {99999}

NoHttp ==
    [kind |-> "none", status_code |-> 0, success |-> FALSE, http_status |-> 0,
     message |-> Msg("", <<>>), error_code |-> NoneT, raw_response |-> NoRaw,
     transaction_timestamp |-> 0,
     services |-> [soap_client |-> FALSE, consulta_client |-> FALSE]]

\* validation_exception_handler, lines 124-148
ValidationErrorResponse ==
    [NoHttp EXCEPT !.kind = "validation_error", !.status_code = 422, !.http_status = 422,
                   !.error_code = Some(<<"V", "A", "L", "I", "D", "A", "T", "I", "O", "N",
                                         "_", "E", "R", "R", "O", "R">>)]

\* raise HTTPException(status_code=..., detail=...)
HTTPExceptionResponse(status, detail) ==
    [NoHttp EXCEPT !.kind = "http_exception", !.status_code = status, !.message = detail]

\* generic_exception_handler, lines 150-161
GenericErrorResponse(exc) ==
    [NoHttp EXCEPT !.kind = "internal_error", !.status_code = 500, !.http_status = 500,
                   !.message = Msg("Ocurrio un error interno en el servidor: {}", exc.text),
                   !.error_code = Some(<<"I", "N", "T", "E", "R", "N", "A", "L", "_", "S", "E",
                                         "R", "V", "E", "R", "_", "E", "R", "R", "O", "R">>)]

\* An envelope built without the error code of the outcome.
create_api_response_NoErrorCode(soap_response) ==
    IF ~soap_response.success /\ soap_response.http_status >= 500
    THEN HTTPExceptionResponse(soap_response.http_status, soap_response.message)
    ELSE [kind |-> "api_response", status_code |-> 200,
          success |-> soap_response.success,
          http_status |-> soap_response.http_status,
          message |-> soap_response.message,
          error_code |-> NoneT,
          raw_response |-> soap_response.raw_response,
          transaction_timestamp |-> soap_response.timestamp]

\* create_api_response, lines 163-173
create_api_response(soap_response) ==
    IF ~soap_response.success /\ soap_response.http_status >= 500
    THEN HTTPExceptionResponse(soap_response.http_status, soap_response.message)
    ELSE [kind |-> "api_response", status_code |-> 200,
          success |-> soap_response.success,
          http_status |-> soap_response.http_status,
          message |-> soap_response.message,
          error_code |-> soap_response.error_code,
          raw_response |-> soap_response.raw_response,
          transaction_timestamp |-> soap_response.timestamp]

\* The row log_transaction builds, database.py lines 68-81
AuditRow(r, soap_response) ==
    [transaction_type |-> IF r.variant \in ActionVariants THEN "action" ELSE "query",
     msg_type |-> IF r.variant \in ActionVariants THEN MsgType(r.variant)
                  ELSE <<OperationName(r.variant)>>,
     imei |-> r.data["imei"],
     request_payload |-> r.data,
     success |-> soap_response.success,
     http_status |-> soap_response.http_status,
     response_message |-> soap_response.message,
     error_code |-> soap_response.error_code,
     raw_response |-> soap_response.raw_response,
     response_time_ms |-> soap_response.response_time_ms,
     timestamp |-> soap_response.timestamp]

\* The concurrent action requests of one running instance, and a coroutine
\* that has not started
Tasks == 1..MaxTasks
NoTask == [pc |-> "none", variant |-> "none", local |-> 0, process_id |-> <<>>,
           proc_seq |-> <<>>, message_id |-> <<>>]

\* no callback in the webhook process
\* request.content_type: the Content-Type header as sent, None without one
Header(v) == [some |-> TRUE, v |-> v]
NoHeader == [some |-> FALSE, v |-> ""]

\* request.data: utf8 says whether the bytes decode as UTF-8, wf whether
\* etree.fromstring accepts them, root is the tree it builds
HookBody(utf8, wf, root) == [utf8 |-> utf8, wf |-> wf, root |-> root]

\* the pages the webhook answers with: "", the acknowledgement document, and
\* the error page of the framework
Page(kind, root) == [kind |-> kind, root |-> root]
EmptyPage == Page("empty", NoNode)

\* an element written into the document, <tag>text</tag> or a wrapper with
\* its children, and the document before it is built
Element(tag, text) == [tag |-> tag, text |-> text, kids |-> <<>>]
NoElement == [tag |-> "", text |-> <<>>, kids |-> <<>>]
NoPayload == [cabecera |-> <<>>, cuerpo |-> NoElement]

NoHookRequest == [content_type |-> NoHeader, body |-> HookBody(TRUE, FALSE, NoNode),
                  fault |-> FALSE]
NoHookResponse == [status |-> 0, mimetype |-> "", body |-> EmptyPage]

Init ==
    /\ soap_client \in BOOLEAN
    /\ consulta_client \in BOOLEAN
    /\ message_counter \in (IF soap_client THEN SeedValues ELSE {0})
    /\ proc_counter \in (IF soap_client
                         THEN {message_counter, (message_counter + 1) % SeedModulus}
                         ELSE {0})
    /\ now = 0
    /\ pc = "idle"
    /\ req = NoReq
    /\ reply = NoReply
    /\ response = NewResponse(0)
    /\ start_time = 0
    /\ raised = NoExc
    /\ posts = 0
    /\ innerParsed = FALSE
    /\ finalized = 0
    /\ http = NoHttp
    /\ audit = <<>>
    /\ log_calls = 0
    /\ tasks = [t \in Tasks |-> NoTask]
    /\ loop = 0
    /\ hook_pc = "idle"
    /\ hook_request = NoHookRequest
    /\ hook_response = NoHookResponse
    /\ hook_reached = "none"
    /\ build_pc = "idle"
    /\ build_req = NoReq
    /\ build_body = NoElement
    /\ build_xml = NoPayload

\* GET /health: "services" tells for each client whether it is not None
HealthResponse(soap, consulta) ==
    [NoHttp EXCEPT !.kind = "health", !.status_code = 200,
                   !.services = [soap_client |-> soap, consulta_client |-> consulta]]

health_check ==
    /\ pc = "idle"
    /\ http' = HealthResponse(soap_client, consulta_client)
    /\ pc' = "responded"
    /\ UNCHANGED <<soap_client, consulta_client, message_counter, proc_counter, now, req,
                   reply, response, start_time, raised, posts, innerParsed, finalized,
                   audit, log_calls, loopVars, hookVars, buildVars>>

\* A request arrives and the framework validates it against the endpoint's
\* model; a request that fails is answered by validation_exception_handler.
Receive ==
    /\ pc = "idle"
    /\ UNCHANGED <<log_calls, loopVars, hookVars, buildVars>>
    /\ \E r \in Requests :
          /\ req' = r
          /\ IF RequestValid(r)
             THEN pc' = "endpoint" /\ http' = http
             ELSE pc' = "responded" /\ http' = ValidationErrorResponse
    /\ UNCHANGED <<soap_client, consulta_client, message_counter, proc_counter, now,
                   reply, response, start_time, raised, posts, innerParsed, finalized,
                   audit>>

\* An endpoint that asks whether any client is there.
ClientAvailable_EitherClient(v) == soap_client \/ consulta_client

ClientAvailable(v) == IF Dialect(v) = "A" THEN soap_client ELSE consulta_client

\* The endpoint function up to the try block of _send_request: the 503 of an
\* absent client; else the client method builds its XML (_build_xml draws a
\* process identifier, then a message identifier) and _send_request creates
\* the outcome and reads the clock.
Endpoint ==
    /\ pc = "endpoint"
    /\ UNCHANGED <<log_calls, loopVars, hookVars, buildVars>>
    /\ IF ~ClientAvailable(req.variant)
       THEN /\ http' = HTTPExceptionResponse(503, Msg("Servicio no disponible", <<>>))
            /\ pc' = "responded"
            /\ UNCHANGED <<message_counter, proc_counter, response, start_time>>
       ELSE /\ proc_counter' = IF Dialect(req.variant) = "A" THEN proc_counter + 1
                               ELSE proc_counter
            /\ message_counter' = IF Dialect(req.variant) = "A" THEN message_counter + 1
                                  ELSE message_counter
            /\ response' = NewResponse(now)
            /\ start_time' = now
            /\ pc' = "try"
            /\ http' = http
    /\ UNCHANGED <<soap_client, consulta_client, now, req, reply, raised, posts,
                   innerParsed, finalized, audit>>

\* soap_client.py lines 134-168: the one session.post and what follows it
SRTM_Try ==
    /\ pc = "try"
    /\ UNCHANGED <<log_calls, loopVars, hookVars, buildVars>>
    /\ Dialect(req.variant) = "A"
    /\ \E rep \in ActionReplies, delay \in {0, MaxDelay} :
          LET out == SRTM_TryBody(response, rep, MsgType(req.variant))
          IN /\ reply' = rep
             /\ now' = now + delay
             /\ posts' = posts + 1
             /\ response' = out.response
             /\ raised' = out.raised
             /\ pc' = IF out.raised = NoExc THEN "finally" ELSE "except"
    /\ UNCHANGED <<soap_client, consulta_client, message_counter, proc_counter, req,
                   start_time, innerParsed, finalized, http, audit>>

\* consulta_client.py lines 76-132
Consulta_Try ==
    /\ pc = "try"
    /\ UNCHANGED <<log_calls, loopVars, hookVars, buildVars>>
    /\ Dialect(req.variant) = "B"
    /\ \E rep \in QueryReplies(OperationName(req.variant)), delay \in {0, MaxDelay},
          padsYear \in BOOLEAN :
          LET out == Consulta_TryBody(response, rep, OperationName(req.variant), padsYear)
          IN /\ reply' = rep
             /\ now' = now + delay
             /\ posts' = posts + 1
             /\ response' = out.response
             /\ raised' = out.raised
             /\ innerParsed' = out.parsed
             /\ pc' = IF out.raised = NoExc THEN "finally" ELSE "except"
    /\ UNCHANGED <<soap_client, consulta_client, message_counter, proc_counter, req,
                   start_time, finalized, http, audit>>

\* A handler that sends the request again after a timeout.
SRTM_Handle_RetryOnTimeout ==
    /\ pc = "except"
    /\ UNCHANGED <<log_calls, loopVars, hookVars, buildVars>>
    /\ Dialect(req.variant) = "A"
    /\ IF raised.cls = "Timeout" /\ posts < 2
       THEN pc' = "try" /\ raised' = NoExc /\ response' = response
       ELSE /\ IF SRTM_Catches(raised)
               THEN response' = SRTM_Except(response, raised) /\ raised' = NoExc
               ELSE UNCHANGED <<response, raised>>
            /\ pc' = "finally"
    /\ UNCHANGED <<soap_client, consulta_client, message_counter, proc_counter, now, req,
                   reply, start_time, posts, innerParsed, finalized, http, audit>>

\* soap_client.py lines 170-176
SRTM_Handle ==
    /\ pc = "except"
    /\ UNCHANGED <<log_calls, loopVars, hookVars, buildVars>>
    /\ Dialect(req.variant) = "A"
    /\ IF SRTM_Catches(raised)
       THEN response' = SRTM_Except(response, raised) /\ raised' = NoExc
       ELSE UNCHANGED <<response, raised>>
    /\ pc' = "finally"
    /\ UNCHANGED <<soap_client, consulta_client, message_counter, proc_counter, now, req,
                   reply, start_time, posts, innerParsed, finalized, http, audit>>

\* consulta_client.py lines 134-137
Consulta_Handle ==
    /\ pc = "except"
    /\ UNCHANGED <<log_calls, loopVars, hookVars, buildVars>>
    /\ Dialect(req.variant) = "B"
    /\ IF Consulta_Catches(raised)
       THEN response' = Consulta_Except(response, raised) /\ raised' = NoExc
       ELSE UNCHANGED <<response, raised>>
    /\ pc' = "finally"
    /\ UNCHANGED <<soap_client, consulta_client, message_counter, proc_counter, now, req,
                   reply, start_time, posts, innerParsed, finalized, http, audit>>

\* The latency computed at the end of the try block only: an outcome that
\* went through the exception handler is returned without it.
Finally_SuccessPathOnly ==
    /\ pc = "finally"
    /\ UNCHANGED <<log_calls, loopVars, hookVars, buildVars>>
    /\ IF response.message.fmt \in {"Error inesperado en el procesamiento.",
                                    "Error inesperado en la comunicacion: {}",
                                    "Error SOAP: {}"}
       THEN UNCHANGED <<response, finalized>>
       ELSE /\ response' = [response EXCEPT !.response_time_ms = (now - start_time) * 1000]
            /\ finalized' = finalized + 1
    /\ pc' = IF raised = NoExc THEN "returned" ELSE "faulted"
    /\ UNCHANGED <<soap_client, consulta_client, message_counter, proc_counter, now, req,
                   reply, start_time, raised, posts, innerParsed, http, audit>>

\* The finally block of either client: response_time_ms from the clock, then
\* the return, or the exception going on to the caller.
Finally ==
    /\ pc = "finally"
    /\ UNCHANGED <<log_calls, loopVars, hookVars, buildVars>>
    /\ response' = [response EXCEPT !.response_time_ms = (now - start_time) * 1000]
    /\ finalized' = finalized + 1
    /\ pc' = IF raised = NoExc THEN "returned" ELSE "faulted"
    /\ UNCHANGED <<soap_client, consulta_client, message_counter, proc_counter, now, req,
                   reply, start_time, raised, posts, innerParsed, http, audit>>

\* A log_transaction without its try/except: the exception of the session
\* leaves the endpoint.
LogTransaction_Raises ==
    /\ pc = "returned"
    /\ log_calls' = log_calls + 1
    /\ UNCHANGED <<loopVars, hookVars, buildVars>>
    /\ \E committed \in BOOLEAN :
          /\ audit' = IF committed THEN Append(audit, AuditRow(req, response)) ELSE audit
          /\ raised' = IF committed THEN raised ELSE Exc("SQLAlchemyError", <<"d", "b">>)
          /\ pc' = IF committed THEN "logged" ELSE "faulted"
    /\ UNCHANGED <<soap_client, consulta_client, message_counter, proc_counter, now, req,
                   reply, response, start_time, posts, innerParsed, finalized, http>>

\* An endpoint that answers a failed outcome before it writes the record:
\* create_api_response raises and log_transaction is not reached.
LogTransaction_SkippedOnError ==
    /\ pc = "returned"
    /\ UNCHANGED <<loopVars, hookVars, buildVars>>
    /\ IF ~response.success /\ response.http_status >= 500
       THEN UNCHANGED <<log_calls, audit>>
       ELSE /\ log_calls' = log_calls + 1
            /\ \E committed \in BOOLEAN :
                  audit' = IF committed THEN Append(audit, AuditRow(req, response))
                           ELSE audit
    /\ pc' = "logged"
    /\ UNCHANGED <<soap_client, consulta_client, message_counter, proc_counter, now, req,
                   reply, response, start_time, raised, posts, innerParsed, finalized,
                   http>>

\* database.log_transaction: the row is added and committed, or the
\* exception of the session is swallowed and the session rolled back.
LogTransaction ==
    /\ pc = "returned"
    /\ log_calls' = log_calls + 1
    /\ UNCHANGED <<loopVars, hookVars, buildVars>>
    /\ \E committed \in BOOLEAN :
          audit' = IF committed THEN Append(audit, AuditRow(req, response)) ELSE audit
    /\ pc' = "logged"
    /\ UNCHANGED <<soap_client, consulta_client, message_counter, proc_counter, now, req,
                   reply, response, start_time, raised, posts, innerParsed, finalized,
                   http>>

\* return create_api_response(soap_response); an exception that left the
\* client is answered by generic_exception_handler.
Respond ==
    /\ pc \in {"logged", "faulted"}
    /\ UNCHANGED <<log_calls, loopVars, hookVars, buildVars>>
    /\ http' = IF pc = "faulted" THEN GenericErrorResponse(raised)
               ELSE create_api_response(response)
    /\ pc' = "responded"
    /\ UNCHANGED <<soap_client, consulta_client, message_counter, proc_counter, now, req,
                   reply, response, start_time, raised, posts, innerParsed, finalized,
                   audit>>

Next ==
    \/ health_check
    \/ Receive
    \/ Endpoint
    \/ SRTM_Try
    \/ Consulta_Try
    \/ SRTM_Handle
    \/ Consulta_Handle
    \/ Finally
    \/ LogTransaction
    \/ Respond

Spec == Init /\ [][Next]_vars

----------------------------------------------------------------------------
(* Concurrent action requests: the endpoint coroutines of main.py on the   *)
(* event loop, each drawing its two identifiers in _build_xml.             *)

OperadorId == <<"0", "0", "0", "2", "0">>

\* datetime.now().strftime("%Y%m%d"), the day the instance is running
Today == <<"2", "0", "2", "4", "1", "0", "2", "5">>

\* process_type_map of _build_xml
ProcessType(v) ==
    CASE v = "registro_positivo" -> <<"0", "1">>
      [] v = "registro_negativo" -> <<"0", "2">>
      [] v = "cancelacion_negativo" -> <<"0", "3">>
      [] v = "modificacion_positivo" -> <<"0", "4">>
      [] v = "cancelacion_positivo" -> <<"0", "5">>
      [] OTHER -> <<"0", "0">>

\* f"{counter:0<width>d}"
Sequence(counter, width) == ZeroPad(Decimal(counter), width)

\* _generate_id once the counter has been incremented
MessageId(counter) == OperadorId \o Today \o Sequence(counter, 7)
ProcessId(prefix, counter) == OperadorId \o Today \o prefix \o Sequence(counter, 5)

\* Endpoints declared with def: the framework runs each in a worker thread,
\* and the threads interleave freely.
MayRun_WorkerThreads(t) == TRUE

\* The endpoints are coroutines (async def) with no await in them: the event
\* loop starts one when it is free and runs it to its end before any other.
MayRun(t) == IF tasks[t].pc = "ready" THEN loop = 0 ELSE loop = t

\* An action request passed validation and its coroutine is ready to run.
Arrive(t) ==
    /\ tasks[t].pc = "none"
    /\ \E v \in ActionVariants : tasks' = [tasks EXCEPT ![t].pc = "ready", ![t].variant = v]
    /\ UNCHANGED <<restVars, loop, hookVars, buildVars>>

\* The event loop starts the coroutine: the endpoint up to _build_xml.
Resume(t) ==
    /\ tasks[t].pc = "ready"
    /\ MayRun(t)
    /\ loop' = t
    /\ tasks' = [tasks EXCEPT ![t].pc = "proc_read"]
    /\ UNCHANGED <<restVars, hookVars, buildVars>>

\* self.proc_counter += 1: the attribute is read ...
ProcRead(t) ==
    /\ tasks[t].pc = "proc_read"
    /\ MayRun(t)
    /\ tasks' = [tasks EXCEPT ![t].pc = "proc_write", ![t].local = proc_counter]
    /\ UNCHANGED <<restVars, loop, hookVars, buildVars>>

\* ... and stored incremented
ProcWrite(t) ==
    /\ tasks[t].pc = "proc_write"
    /\ MayRun(t)
    /\ proc_counter' = tasks[t].local + 1
    /\ tasks' = [tasks EXCEPT ![t].pc = "proc_format"]
    /\ UNCHANGED <<soap_client, consulta_client, message_counter, now, pc, req, reply,
                   response, start_time, raised, posts, innerParsed, finalized, http,
                   audit, log_calls, loop, hookVars, buildVars>>

\* sequence = f"{self.proc_counter:05d}" and the identifier returned
ProcFormat(t) ==
    /\ tasks[t].pc = "proc_format"
    /\ MayRun(t)
    /\ tasks' = [tasks EXCEPT ![t].pc = "msg_read",
                              ![t].proc_seq = Sequence(proc_counter, 5),
                              ![t].process_id =
                                  ProcessId(ProcessType(tasks[t].variant), proc_counter)]
    /\ UNCHANGED <<restVars, loop, hookVars, buildVars>>

\* self.message_counter += 1: the attribute is read ...
MsgRead(t) ==
    /\ tasks[t].pc = "msg_read"
    /\ MayRun(t)
    /\ tasks' = [tasks EXCEPT ![t].pc = "msg_write", ![t].local = message_counter]
    /\ UNCHANGED <<restVars, loop, hookVars, buildVars>>

\* ... and stored incremented
MsgWrite(t) ==
    /\ tasks[t].pc = "msg_write"
    /\ MayRun(t)
    /\ message_counter' = tasks[t].local + 1
    /\ tasks' = [tasks EXCEPT ![t].pc = "msg_format"]
    /\ UNCHANGED <<soap_client, consulta_client, proc_counter, now, pc, req, reply,
                   response, start_time, raised, posts, innerParsed, finalized, http,
                   audit, log_calls, loop, hookVars, buildVars>>

\* sequence = f"{self.message_counter:07d}" and the identifier returned
MsgFormat(t) ==
    /\ tasks[t].pc = "msg_format"
    /\ MayRun(t)
    /\ tasks' = [tasks EXCEPT ![t].pc = "send",
                              ![t].message_id = MessageId(message_counter)]
    /\ UNCHANGED <<restVars, loop, hookVars, buildVars>>

\* _send_request, log_transaction and the return of the endpoint: the
\* coroutine ends and the event loop is free again.
Complete(t) ==
    /\ tasks[t].pc = "send"
    /\ MayRun(t)
    /\ tasks' = [tasks EXCEPT ![t].pc = "done"]
    /\ loop' = 0
    /\ UNCHANGED <<restVars, hookVars, buildVars>>

InitLoop == Init /\ soap_client

NextLoop ==
    \/ \E t \in Tasks : Arrive(t)
    \/ \E t \in Tasks : Resume(t)
    \/ \E t \in Tasks : ProcRead(t)
    \/ \E t \in Tasks : ProcWrite(t)
    \/ \E t \in Tasks : ProcFormat(t)
    \/ \E t \in Tasks : MsgRead(t)
    \/ \E t \in Tasks : MsgWrite(t)
    \/ \E t \in Tasks : MsgFormat(t)
    \/ \E t \in Tasks : Complete(t)

SpecLoop == InitLoop /\ [][NextLoop]_vars

----------------------------------------------------------------------------
(* The inbound webhook (webhook.py): one view, handle_srtm_response, in a  *)
(* process of its own.                                                     *)

\* A table that also takes the request code 1001.
MESSAGE_MAP_WithSolicitud ==
    Decimal(1001) :> "RespuestaRegistroPositivo"
    @@ Decimal(1002) :> "RespuestaRegistroPositivo"
    @@ Decimal(2002) :> "RespuestaRegistroNegativo"
    @@ Decimal(3002) :> "RespuestaCancelacionRegistroNegativo"
    @@ Decimal(4002) :> "RespuestaModificacionRegistroPositivo"
    @@ Decimal(5002) :> "RespuestaCancelacionRegistroPositivo"

MESSAGE_MAP ==
    Decimal(1002) :> "RespuestaRegistroPositivo"
    @@ Decimal(2002) :> "RespuestaRegistroNegativo"
    @@ Decimal(3002) :> "RespuestaCancelacionRegistroNegativo"
    @@ Decimal(4002) :> "RespuestaModificacionRegistroPositivo"
    @@ Decimal(5002) :> "RespuestaCancelacionRegistroPositivo"

\* root.xpath(".//tag"): the elements beneath root with that name and no
\* namespace, in document order; root itself is not among them
XPathDeep(root, tag) == SelectSeq(Descendants(root.kids), LAMBDA n : n.tag = tag)

RECURSIVE ChildrenTagged(_, _)
ChildrenTagged(parents, tag) ==
    IF parents = <<>> THEN <<>>
    ELSE SelectSeq(Head(parents).kids, LAMBDA n : n.tag = tag)
         \o ChildrenTagged(Tail(parents), tag)

\* A query that takes TipoRespuesta under any element.
XPathChild_AnyWrapper(root, wrapper, tag) == XPathDeep(root, tag)

\* root.xpath(".//wrapper/tag"): the children named tag of every wrapper
\* element beneath root
XPathChild(root, wrapper, tag) == ChildrenTagged(XPathDeep(root, wrapper), tag)

\* return "", status
Empty(status) == [status |-> status, mimetype |-> "text/html", body |-> EmptyPage]

\* Response(ack_response, mimetype='text/xml'): Envelope / Body /
\* receiveMessageResponse / receiveMessageReturn with the text ack
AckResponse ==
    [status |-> 200, mimetype |-> "text/xml",
     body |-> Page("xml",
                Node("Envelope", NoneT,
                     <<Node("Body", NoneT,
                            <<Node("receiveMessageResponse", NoneT,
                                   <<Leaf("receiveMessageReturn", Ack)>>)>>)>>))]

\* an exception nobody catches: the framework answers 500 with its own page
UnhandledError == [status |-> 500, mimetype |-> "text/html", body |-> Page("error", NoNode)]

\* A webhook that takes any request that names a content type.
AcceptedContentType_AnyHeader(content_type) == content_type.some

\* request.content_type in ['text/xml', 'application/xml']
AcceptedContentType(content_type) ==
    content_type.some /\ content_type.v \in {"text/xml", "application/xml"}

\* A view that answers a rejected result with 404.
Classify_RejectedIsNotFound(root) ==
    LET tipo_msg_element == XPathDeep(root, "TipoMsg") IN
    IF \/ tipo_msg_element = <<>>
       \/ ~tipo_msg_element[1].text.some
       \/ tipo_msg_element[1].text.v \notin DOMAIN MESSAGE_MAP
    THEN [response |-> Empty(200), reached |-> "tipo_msg"]
    ELSE LET response_element_name == MESSAGE_MAP[tipo_msg_element[1].text.v]
             tipo_respuesta_element == XPathChild(root, response_element_name, "TipoRespuesta")
         IN  IF tipo_respuesta_element # <<>>
                /\ tipo_respuesta_element[1].text = Some(<<"1">>)
             THEN [response |-> AckResponse, reached |-> "ack"]
             ELSE [response |-> Empty(404), reached |-> "tipo_respuesta"]

\* the try block once etree.fromstring has built root
Classify(root) ==
    LET tipo_msg_element == XPathDeep(root, "TipoMsg") IN
    IF \/ tipo_msg_element = <<>>
       \/ ~tipo_msg_element[1].text.some
       \/ tipo_msg_element[1].text.v \notin DOMAIN MESSAGE_MAP
    THEN [response |-> Empty(200), reached |-> "tipo_msg"]
    ELSE LET response_element_name == MESSAGE_MAP[tipo_msg_element[1].text.v]
             tipo_respuesta_element == XPathChild(root, response_element_name, "TipoRespuesta")
         IN  IF tipo_respuesta_element # <<>>
             THEN [response |-> AckResponse, reached |-> "ack"]
             ELSE [response |-> Empty(404), reached |-> "tipo_respuesta"]

\* The view from its first line to its return. The body is decoded for the log
\* before the try block, so bytes that are not UTF-8 raise outside it.
HandleSrtmResponse(rq) ==
    IF ~AcceptedContentType(rq.content_type)
    THEN [response |-> Empty(404), reached |-> "content_type"]
    ELSE IF ~rq.body.utf8
    THEN [response |-> UnhandledError, reached |-> "decode"]
    ELSE IF rq.fault
    THEN [response |-> Empty(500), reached |-> "parse"]
    ELSE IF ~rq.body.wf
    THEN [response |-> Empty(404), reached |-> "parse"]
    ELSE Classify(rq.body.root)

\* The callbacks the registry, or anyone else, may post.
ContentTypes ==
    {NoHeader, Header("text/xml"), Header("application/xml"), Header("application/json"),
     Header("text/xml; charset=utf-8"), Header("text/plain")}

TipoMsgTexts ==
    {Decimal(1002), Decimal(2002), Decimal(3002), Decimal(4002), Decimal(5002),
     Decimal(9999), Decimal(1001), <<>>, Decimal(1002) \o <<" ">>}

Cabeceras ==
    {<<>>, <<Node("Cabecera", NoneT, <<Leaf("{urn:srtm}TipoMsg", Decimal(1002))>>)>>}
    \cup {<<Node("Cabecera", NoneT, <<Leaf("TipoMsg", t)>>)>> : t \in TipoMsgTexts}

Wrappers == {"RespuestaRegistroPositivo", "RespuestaRegistroNegativo"}

Respuestas ==
    {<<>>, <<Leaf("TipoRespuesta", <<"1">>)>>}
    \cup UNION {{<<Node(w, NoneT, <<>>)>>,
                 <<Node(w, NoneT, <<Node("Detalle", NoneT, <<Leaf("TipoRespuesta", <<"1">>)>>)>>)>>}
                \cup {<<Node(w, NoneT, <<Leaf("TipoRespuesta", r)>>)>> : r \in {<<"1">>, <<"2">>, <<>>}}
                : w \in Wrappers}

HookDocuments ==
    {Node("Mensaje", NoneT, c \o r) : c \in Cabeceras, r \in Respuestas}
    \cup {Node(w, NoneT, <<Leaf("TipoMsg", Decimal(1002)), Leaf("TipoRespuesta", <<"1">>)>>) :
             w \in Wrappers}

HookBodies ==
    {HookBody(TRUE, TRUE, d) : d \in HookDocuments}
    \cup {HookBody(TRUE, FALSE, NoNode), HookBody(FALSE, FALSE, NoNode),
          HookBody(FALSE, TRUE, Node("Mensaje", NoneT, <<>>))}

HookRequests ==
    {[content_type |-> c, body |-> b, fault |-> f] :
        c \in ContentTypes, b \in HookBodies, f \in BOOLEAN}

\* a POST reaches /srtm_response
HookReceive ==
    /\ hook_pc = "idle"
    /\ \E rq \in HookRequests : hook_request' = rq
    /\ hook_pc' = "received"
    /\ UNCHANGED <<hook_response, hook_reached, restVars, loopVars, buildVars>>

handle_srtm_response ==
    /\ hook_pc = "received"
    /\ hook_response' = HandleSrtmResponse(hook_request).response
    /\ hook_reached' = HandleSrtmResponse(hook_request).reached
    /\ hook_pc' = "responded"
    /\ UNCHANGED <<hook_request, restVars, loopVars, buildVars>>

\* the answer is on the wire and the process waits for the next POST
HookSent ==
    /\ hook_pc = "responded"
    /\ hook_pc' = "idle"
    /\ hook_request' = NoHookRequest
    /\ hook_response' = NoHookResponse
    /\ hook_reached' = "none"
    /\ UNCHANGED <<restVars, loopVars, buildVars>>

NextWebhook == HookReceive \/ handle_srtm_response \/ HookSent

SpecWebhook == Init /\ [][NextWebhook]_vars

----------------------------------------------------------------------------
(* The documents of Dialect A: the five client methods and _build_xml      *)
(* (soap_client.py). A document is kept as the elements written into it,   *)
(* each with the characters put between its tags.                          *)

\* html.escape(text, quote=True), character by character
EscapeChar(c) ==
    CASE c = "&" -> <<"&", "a", "m", "p", ";">>
      [] c = "<" -> <<"&", "l", "t", ";">>
      [] c = ">" -> <<"&", "g", "t", ";">>
      [] c = "\"" -> <<"&", "q", "u", "o", "t", ";">>
      [] c = "'" -> <<"&", "#", "x", "2", "7", ";">>
      [] OTHER -> <<c>>

RECURSIVE HtmlEscape(_)
HtmlEscape(t) == IF t = <<>> THEN <<>> ELSE EscapeChar(Head(t)) \o HtmlEscape(Tail(t))

\* _escape_xml(text): html.escape(text, quote=True) if text else ""
EscapeXml(o) == IF Truthy(o) THEN HtmlEscape(o.v) ELSE <<>>

\* f"{value}": the text itself, None for a missing value
Formatted(o) == IF o.some THEN o.v ELSE <<"N", "o", "n", "e">>

\* f"<Tag>{req.field}</Tag>"
Raw(data, f, tag) == <<Element(tag, Formatted(data[f]))>>

\* f"<Tag>{self._escape_xml(req.field)}</Tag>"
Escaped(data, f, tag) == <<Element(tag, EscapeXml(data[f]))>>

\* (f"<Tag>{self._escape_xml(req.field)}</Tag>" if req.field else "")
EscapedIf(data, f, tag) == IF Truthy(data[f]) THEN Escaped(data, f, tag) ELSE <<>>

\* (f"<Tag>{req.field}</Tag>" if req.field else "")
RawIf(data, f, tag) == IF Truthy(data[f]) THEN Raw(data, f, tag) ELSE <<>>

\* (f"<Tag>{req.field}</Tag>" if req.field is not None else "")
RawIfNotNone(data, f, tag) == IF data[f].some THEN Raw(data, f, tag) ELSE <<>>

\* _get_current_datetime() while the document is built
CurrentDatetime == SampleDate

Wrapper(tag, kids) == [tag |-> tag, text |-> <<>>, kids |-> kids]

registrar_positivo(data) ==
    Wrapper("SolicitudRegistroPositivo",
        Raw(data, "imei", "Imei")
        \o EscapedIf(data, "imsi", "Imsi")
        \o EscapedIf(data, "msisdn", "Msisdn")
        \o EscapedIf(data, "nombre_razon_social_propietario", "NombreRazonSocialPropietario")
        \o EscapedIf(data, "direccion_propietario", "DireccionPropietario")
        \o Raw(data, "tipo_usuario_propietario", "TipoUsuarioPropietario")
        \o Raw(data, "tipo_identificacion_propietario", "TipoIdentificacionPropietario")
        \o Escaped(data, "identificacion_propietario", "IdentificacionPropietario")
        \o EscapedIf(data, "telefono_contacto_propietario", "TelefonoContactoPropietario"))

registrar_negativo(data) ==
    Wrapper("SolicitudRegistroNegativo",
        Raw(data, "imei", "Imei")
        \o <<Element("Tecnologia", <<"0", "1">>)>>
        \o <<Element("FechaReporte", CurrentDatetime)>>
        \o EscapedIf(data, "nombre_reporte", "NombreRazonSocialReporte")
        \o EscapedIf(data, "tipo_identificacion_reporte", "TipoIdentificacionReporte")
        \o EscapedIf(data, "identificacion_reporte", "IdentificacionReporte")
        \o EscapedIf(data, "direccion_reporte", "DireccionReporte")
        \o EscapedIf(data, "telefono_reporte", "TelefonoContactoReporte")
        \o EscapedIf(data, "departamento_reporte", "DepartamentoReporte")
        \o EscapedIf(data, "ciudad_reporte", "CiudadReporte")
        \o Raw(data, "tipo_reporte", "TipoReporte")
        \o RawIfNotNone(data, "empleo_violencia", "EmpleoViolencia")
        \o RawIfNotNone(data, "utilizacion_armas", "UtilizacionArmas")
        \o RawIfNotNone(data, "victima_menor_edad", "VictimaMenorEdad")
        \o EscapedIf(data, "correo_electronico", "CorreoElectronico"))

cancelar_negativo(data) ==
    Wrapper("SolicitudCancelacionRegistroNegativo",
        Raw(data, "imei", "Imei")
        \o Raw(data, "fecha_reporte", "FechaReporte"))

modificar_positivo(data) ==
    Wrapper("SolicitudModificacionRegistroPositivo",
        Raw(data, "imei", "Imei")
        \o EscapedIf(data, "imsi", "Imsi")
        \o EscapedIf(data, "msisdn", "Msisdn")
        \o Escaped(data, "nombre_razon_social_propietario", "NombreRazonSocialPropietario")
        \o Escaped(data, "direccion_propietario", "DireccionPropietario")
        \o Raw(data, "tipo_usuario_propietario", "TipoUsuarioPropietario")
        \o Raw(data, "tipo_identificacion_propietario", "TipoIdentificacionPropietario")
        \o Escaped(data, "identificacion_propietario", "IdentificacionPropietario")
        \o Escaped(data, "telefono_contacto_propietario", "TelefonoContactoPropietario")
        \o EscapedIf(data, "nombre_razon_social_autorizado", "NombreRazonSocialAutorizado")
        \o RawIf(data, "tipo_usuario_autorizado", "TipoUsuarioAutorizado")
        \o RawIf(data, "tipo_identificacion_autorizado", "TipoIdentificacionAutorizado")
        \o EscapedIf(data, "identificacion_autorizado", "IdentificacionAutorizado")
        \o EscapedIf(data, "telefono_contacto_autorizado", "TelefonoContactoAutorizado")
        \o EscapedIf(data, "tipo_identificacion_propietario_anterior",
                     "TipoIdentificacionPropietarioAnterior")
        \o EscapedIf(data, "identificacion_propietario_anterior",
                     "IdentificacionPropietarioAnterior")
        \o Raw(data, "tipo_modificacion", "TipoModificacion"))

cancelar_positivo(data) ==
    Wrapper("SolicitudCancelacionRegistroPositivo",
        Raw(data, "imei", "Imei")
        \o Raw(data, "tipo_usuario_propietario", "TipoUsuarioPropietario")
        \o Raw(data, "tipo_identificacion_propietario", "TipoIdentificacionPropietario")
        \o Escaped(data, "identificacion_propietario", "IdentificacionPropietario"))

\* the client method the endpoint of each variant calls
ClientMethod(v, data) ==
    CASE v = "registro_positivo" -> registrar_positivo(data)
      [] v = "registro_negativo" -> registrar_negativo(data)
      [] v = "cancelacion_negativo" -> cancelar_negativo(data)
      [] v = "modificacion_positivo" -> modificar_positivo(data)
      [] OTHER -> cancelar_positivo(data)

\* xml_parts of _build_xml with the two identifiers just drawn
CabeceraMensaje(v, process_id, message_id, observaciones) ==
    <<Element("IdentificadorProceso", process_id),
      Element("IdentificadorMensaje", message_id),
      Element("FechaCreacionMsg", CurrentDatetime),
      Element("TipoMsg", MsgType(v)),
      Element("Emisor", OperadorId),
      Element("Destinatario", <<"0", "0", "0", "0", "0">>)>>
    \o (IF Truthy(observaciones)
        THEN <<Element("Observaciones", EscapeXml(observaciones))>>
        ELSE <<>>)

\* The texts a caller may put in a field, or leave out.
BuildValues ==
    {NoneT, Some(<<>>), Some(<<"0">>), Some(<<"a", "b">>)}
    \cup {Some(<<c>>) : c \in {"&", "<", ">", "\"", "'"}}
    \cup {Some(<<"a", "&", "l", "t", ";">>)}

\* The action requests that pass validation: the payloads of Variations with
\* one field given any of the texts.
BuildRequests ==
    {r \in UNION {{[variant |-> v, isDict |-> TRUE,
                    data |-> [Payload(v, k, {}) EXCEPT ![f] = w]] :
                      k \in Variations(v), f \in Fields(v), w \in BuildValues} :
                  v \in ActionVariants} :
        RequestValid(r)}

\* The endpoint calls the client method with the validated request.
BuildCall ==
    /\ build_pc = "idle"
    /\ soap_client
    /\ \E r \in BuildRequests : build_req' = r
    /\ build_pc' = "method"
    /\ UNCHANGED <<build_body, build_xml, restVars, loopVars, hookVars>>

\* The method puts its body together ...
BuildBody ==
    /\ build_pc = "method"
    /\ build_body' = ClientMethod(build_req.variant, build_req.data)
    /\ build_pc' = "build_xml"
    /\ UNCHANGED <<build_req, build_xml, restVars, loopVars, hookVars>>

\* ... and _build_xml draws the two identifiers and wraps the body.
BuildXml ==
    /\ build_pc = "build_xml"
    /\ proc_counter' = proc_counter + 1
    /\ message_counter' = message_counter + 1
    /\ build_xml' =
          [cabecera |-> CabeceraMensaje(build_req.variant,
                            ProcessId(ProcessType(build_req.variant), proc_counter + 1),
                            MessageId(message_counter + 1),
                            build_req.data["observaciones"]),
           cuerpo |-> build_body]
    /\ build_pc' = "built"
    /\ UNCHANGED <<build_req, build_body, soap_client, consulta_client, now, pc, req,
                   reply, response, start_time, raised, posts, innerParsed, finalized,
                   http, audit, log_calls, loopVars, hookVars>>

InitBuild == Init /\ soap_client

NextBuild == BuildCall \/ BuildBody \/ BuildXml

SpecBuild == InitBuild /\ [][NextBuild]_vars

----------------------------------------------------------------------------
(* Vocabulary of the properties *)

\* the elements beneath the root, in document order
Beneath(root) == Descendants(root.kids)

HasBeneath(root, tag) == \E i \in DOMAIN Beneath(root) : Beneath(root)[i].tag = tag

FirstBeneath(root, tag) ==
    LET d == Beneath(root)
    IN d[CHOOSE i \in DOMAIN d : d[i].tag = tag /\ \A j \in 1..(i - 1) : d[j].tag # tag]

HasChild(node, tag) == \E i \in DOMAIN node.kids : node.kids[i].tag = tag

FirstChild(node, tag) ==
    node.kids[CHOOSE i \in DOMAIN node.kids :
                 node.kids[i].tag = tag /\ \A j \in 1..(i - 1) : node.kids[j].tag # tag]

\* the character data of an element, '' when it has none
CharData(node) == IF node.text.some THEN node.text.v ELSE <<>>

InFlight == req.variant # "none"
IsAction == InFlight /\ req.variant \in ActionVariants
IsQuery == InFlight /\ req.variant \in QueryVariants

\* the client call has returned its outcome to the endpoint
Returned == pc = "returned"

\* the registry answered with a non-error status and a well-formed body
Answered == reply.kind = "http" /\ ~RaisesForStatus(reply.status) /\ reply.body.wf

LacksRequired(r) == \E f \in RequiredFields(r.variant) : ~r.data[f].some

\* Dialect B: the return element of the operation is beneath the root and
\* has character data; NestedText is that data, Nested the document in it
HasReturnText ==
    /\ HasBeneath(reply.body.root, ReturnTag(OperationName(req.variant)))
    /\ CharData(FirstBeneath(reply.body.root, ReturnTag(OperationName(req.variant)))) # <<>>
NestedText == CharData(FirstBeneath(reply.body.root, ReturnTag(OperationName(req.variant))))
Nested == ParseInner(NestedText).root
NestedAnswered == IsQuery /\ Returned /\ Answered /\ HasReturnText /\ ParseInner(NestedText).ok

MsgBdaError == "Error de la BDA: {}"
MsgNegativa == "Consulta negativa procesada exitosamente."
MsgPositiva == "Consulta positiva procesada exitosamente (Estructura de datos pendiente)."
MsgUnknown == "La estructura de la respuesta no coincide con los patrones conocidos."
MsgNoResults == "La consulta no retorno resultados."
MsgUnexpectedB == "Error inesperado en el procesamiento."

\* the value stored under a key of a list-shaped raw_response
RawItem(raw, key) ==
    raw.items[CHOOSE i \in DOMAIN raw.items : raw.items[i][1] = key][2]
HasRawItem(raw, key) == raw.kind = "list" /\ \E i \in DOMAIN raw.items : raw.items[i][1] = key

----------------------------------------------------------------------------
(* C1 *)

\* C1: a request that lacks an always-required field of its variant is
\* answered by the validation handler (422) and no POST is made for it; more
\* generally no POST is ever made for a request that did not pass validation.
C1_InvalidNeverPosted ==
    /\ (InFlight /\ LacksRequired(req)) =>
          /\ posts = 0
          /\ pc = "responded"
          /\ http.kind = "validation_error"
          /\ http.status_code = 422
    /\ (InFlight /\ ~RequestValid(req)) => posts = 0

\* a well-formed payload lacking one required field, rejected although its
\* client is available
C1_Witness ==
    /\ InFlight /\ req.isDict /\ LacksRequired(req)
    /\ ClientAvailable(req.variant)
    /\ pc = "responded" /\ http.status_code = 422 /\ posts = 0

----------------------------------------------------------------------------
(* C2 *)

\* C2: no client operation lets an exception out: whatever the transport
\* did, the call ends by returning its outcome record, never by raising.
C2_NeverRaises ==
    /\ pc # "faulted"
    /\ pc \in {"returned", "logged"} => raised = NoExc /\ finalized = 1

\* calls that returned after a transport fault and after an unparseable body
C2_Witness ==
    /\ Returned /\ IsQuery
    /\ reply.kind = "http" /\ ~RaisesForStatus(reply.status) /\ ~reply.body.wf
    /\ ~response.success

----------------------------------------------------------------------------
(* C3 *)

\* the text the registry put in receiveMessageReturn ('' without the element)
ReturnedText ==
    IF HasBeneath(reply.body.root, "receiveMessageReturn")
    THEN CharData(FirstBeneath(reply.body.root, "receiveMessageReturn"))
    ELSE <<>>

\* C3 as stated: the text of receiveMessageReturn is compared as it is:
\* exactly "ack" is success without error_code, any other text is a failure
\* whose error_code is that text.
C3_ExactText ==
    (IsAction /\ Returned /\ Answered
        /\ HasBeneath(reply.body.root, "receiveMessageReturn")) =>
        IF ReturnedText = Ack
        THEN response.success /\ response.error_code = NoneT
        ELSE ~response.success /\ response.error_code = Some(ReturnedText)

\* C3 amended: the comparison is made on the text with leading and trailing
\* white space removed: stripped text "ack" is success without error_code,
\* any other stripped text is a failure whose error_code is the stripped text.
C3_StrippedText ==
    (IsAction /\ Returned /\ Answered) =>
        IF Strip(ReturnedText) = Ack
        THEN response.success /\ response.error_code = NoneT
        ELSE ~response.success /\ response.error_code = Some(Strip(ReturnedText))

\* a padded " ack" accepted, which the exact comparison would refuse
C3_Witness ==
    /\ IsAction /\ Returned /\ Answered
    /\ ReturnedText = <<" ">> \o Ack
    /\ response.success /\ response.error_code = NoneT

----------------------------------------------------------------------------
(* C4 *)

\* C4: with several markers in the nested document the outcome is that of
\* the marker of highest priority: error, then negative record, then
\* positive record, then none. (The negative record's outcome is its success,
\* or the fault of a FechaReporte that cannot be parsed.)
C4_MarkerPriority ==
    NestedAnswered =>
        IF HasBeneath(Nested, ErrorTag)
        THEN ~response.success /\ response.message.fmt = MsgBdaError
        ELSE IF HasBeneath(Nested, NegativaTag)
        THEN \/ response.success /\ response.message.fmt = MsgNegativa
             \/ ~response.success /\ response.message.fmt = MsgUnexpectedB
        ELSE IF HasBeneath(Nested, PositivaTag)
        THEN response.success /\ response.message.fmt = MsgPositiva
        ELSE ~response.success /\ response.message.fmt = MsgUnknown

\* a negative record placed before an error marker: the error wins
C4_Witness ==
    /\ NestedAnswered
    /\ NestedText = DocText("R", <<"n", "e">>, Some(SampleDate))
    /\ ~response.success /\ response.message.fmt = MsgBdaError

----------------------------------------------------------------------------
(* C5 *)

\* C5: when the nested document's error marker (the first beneath the root)
\* has code C and description D, the outcome is a failure with error_code C
\* and a message made of the description D.
C5_ErrorMarker ==
    (NestedAnswered /\ HasBeneath(Nested, ErrorTag)
        /\ HasChild(FirstBeneath(Nested, ErrorTag), "CodigoError")
        /\ HasChild(FirstBeneath(Nested, ErrorTag), "DescripcionError")) =>
        LET marker == FirstBeneath(Nested, ErrorTag)
        IN /\ ~response.success
           /\ response.error_code = Some(CharData(FirstChild(marker, "CodigoError")))
           /\ response.message.fmt = MsgBdaError
           /\ response.message.arg = CharData(FirstChild(marker, "DescripcionError"))

\* code 99 and description X, in a marker nested under a wrapper element
C5_Witness ==
    /\ NestedAnswered
    /\ NestedText = DocText("R", <<"X">>, NoneT)
    /\ response.error_code = Some(<<"9", "9">>)
    /\ response.message.arg = <<"X">>

----------------------------------------------------------------------------
(* C6 *)

\* a 14-digit YYYYMMDDHHMMSS text that names an instant of the calendar
ValidTimestamp(t) ==
    /\ Len(t) = 14 /\ IsDigits(t)
    /\ NumAt(t, 1, 4) >= 1
    /\ NumAt(t, 5, 2) \in 1..12
    /\ NumAt(t, 7, 2) \in 1..DaysInMonth(NumAt(t, 1, 4), NumAt(t, 5, 2))
    /\ NumAt(t, 9, 2) \in 0..23
    /\ NumAt(t, 11, 2) \in 0..59
    /\ NumAt(t, 13, 2) \in 0..59

\* the same digits as YYYY-DD-MM HH:MM:SS
SwappedDigits(t) ==
    SubSeq(t, 1, 4) \o <<"-">> \o SubSeq(t, 7, 8) \o <<"-">> \o SubSeq(t, 5, 6)
    \o <<" ">> \o SubSeq(t, 9, 10) \o <<":">> \o SubSeq(t, 11, 12)
    \o <<":">> \o SubSeq(t, 13, 14)

NegativaWithDate ==
    /\ NestedAnswered
    /\ ~HasBeneath(Nested, ErrorTag)
    /\ HasBeneath(Nested, NegativaTag)
    /\ HasChild(FirstBeneath(Nested, NegativaTag), "FechaReporte")
    /\ ValidTimestamp(CharData(FirstChild(FirstBeneath(Nested, NegativaTag), "FechaReporte")))

NegativaDate == CharData(FirstChild(FirstBeneath(Nested, NegativaTag), "FechaReporte"))

\* C6: a negative record (no error marker) with a valid 14-digit FechaReporte
\* gives success with FechaReporte rewritten, digit for digit, as
\* YYYY-DD-MM HH:MM:SS, for every valid timestamp.
C6_SwappedDate ==
    NegativaWithDate =>
        /\ response.success
        /\ HasRawItem(response.raw_response, "FechaReporte")
        /\ RawItem(response.raw_response, "FechaReporte") = SwappedDigits(NegativaDate)

\* The part of C6 that holds: the digits are kept for the years that fill
\* four digits (1000 and later).
C6_SwappedDateFourDigitYear ==
    (NegativaWithDate /\ NumAt(NegativaDate, 1, 4) >= 1000) =>
        /\ response.success
        /\ HasRawItem(response.raw_response, "FechaReporte")
        /\ RawItem(response.raw_response, "FechaReporte") = SwappedDigits(NegativaDate)

----------------------------------------------------------------------------
(* C7 *)

\* C7: a nested document with none of the three markers gives a failure
\* whose message says that the structure was not recognized, and the outcome
\* keeps the raw nested text.
C7_UnrecognizedKeepsText ==
    (NestedAnswered
        /\ ~HasBeneath(Nested, ErrorTag)
        /\ ~HasBeneath(Nested, NegativaTag)
        /\ ~HasBeneath(Nested, PositivaTag)) =>
        /\ ~response.success
        /\ response.message.fmt = MsgUnknown
        /\ response.raw_response.kind = "list"
        /\ response.raw_response.body = Some(NestedText)

\* a document holding only a TipoRespuesta element
C7_Witness ==
    /\ NestedAnswered
    /\ NestedText = DocText("R", <<"t">>, NoneT)
    /\ response.message.fmt = MsgUnknown
    /\ response.raw_response.body = Some(NestedText)

----------------------------------------------------------------------------
(* C8 *)

\* C8: when the return element of the operation is absent or has no text,
\* the outcome is the "no results" failure and the nested parse is never run.
C8_NoResultsNoParse ==
    (IsQuery /\ Returned /\ Answered /\ ~HasReturnText) =>
        /\ ~response.success
        /\ response.message.fmt = MsgNoResults
        /\ ~innerParsed

\* the return element is there and empty
C8_Witness ==
    /\ IsQuery /\ Returned /\ Answered
    /\ HasBeneath(reply.body.root, ReturnTag(OperationName(req.variant)))
    /\ ~HasReturnText
    /\ response.message.fmt = MsgNoResults /\ ~innerParsed

----------------------------------------------------------------------------
(* C9 *)

\* the transport failed: no response at all, or a response with an error status
TransportError == reply.kind = "fault" \/ RaisesForStatus(reply.status)

\* C9: in both dialects, after a transport error the outcome is a failure
\* whose http_status is the status actually received, and 500 only when no
\* response was received at all.
C9_StatusReceived ==
    (InFlight /\ Returned /\ TransportError) =>
        /\ ~response.success
        /\ response.http_status = IF reply.kind = "http" THEN reply.status ELSE 500

\* The part of C9 that holds: Dialect A keeps the status received.
C9_StatusReceivedDialectA ==
    (IsAction /\ Returned /\ TransportError) =>
        /\ ~response.success
        /\ response.http_status = IF reply.kind = "http" THEN reply.status ELSE 500

----------------------------------------------------------------------------
(* C10 *)

\* C10: the finalization step runs exactly once on every exit path of a
\* client operation; it assigns response_time_ms and nothing else, after all
\* the other fields of the outcome; the value is present and not negative
\* when the call returns and no field of the outcome changes afterwards.
C10_FinalizedOnce ==
    /\ [](pc \in {"returned", "faulted", "logged"} =>
             /\ finalized = 1
             /\ response.response_time_ms >= 0)
    /\ [](pc \in {"idle", "endpoint", "try", "except", "finally"} => finalized = 0)
    /\ [][finalized' # finalized =>
             /\ pc = "finally"
             /\ finalized' = 1
             /\ response' = [response EXCEPT
                               !.response_time_ms = (now - start_time) * 1000]]_vars
    /\ [][finalized = 1 => response' = response /\ finalized' = 1]_vars

\* a call finalized after a transport fault that took time
C10_Witness ==
    /\ Returned /\ reply.kind = "fault"
    /\ finalized = 1
    /\ response.response_time_ms > 0

----------------------------------------------------------------------------
(* C11 *)

\* C11: a client call makes exactly one POST to the registry and never a
\* second one: none before the try block is entered, one from then on,
\* whatever the POST brought back (timeout, error status, unparseable body,
\* rejected request).
C11_OnePostPerCall ==
    /\ posts <= 1
    /\ pc \in {"idle", "endpoint", "try"} => posts = 0
    /\ pc \in {"except", "finally", "returned", "faulted", "logged"} => posts = 1
    /\ pc = "responded" => posts = finalized

\* a call that timed out and returned with its single POST
C11_Witness ==
    /\ Returned /\ IsAction
    /\ reply.kind = "fault" /\ reply.exc.cls = "Timeout"
    /\ posts = 1

----------------------------------------------------------------------------
(* C12 *)

\* the requests that have drawn their process sequence number / message identifier
HasProcSeq(t) == tasks[t].proc_seq # <<>>
HasMessageId(t) == tasks[t].message_id # <<>>

\* C12: however concurrent action requests interleave, no two of them obtain
\* the same message identifier and no two the same process sequence number.
C12_NoDuplicateIds ==
    \A t, u \in Tasks :
        t # u =>
            /\ (HasMessageId(t) /\ HasMessageId(u)) => tasks[t].message_id # tasks[u].message_id
            /\ (HasProcSeq(t) /\ HasProcSeq(u)) => tasks[t].proc_seq # tasks[u].proc_seq

\* two requests of the same variant in the instance at once, both with their
\* identifiers: one served, the other at its POST
C12_Witness ==
    \E t, u \in Tasks :
        /\ t # u /\ tasks[t].variant = tasks[u].variant
        /\ tasks[t].pc = "done" /\ tasks[u].pc = "send"
        /\ HasMessageId(t) /\ HasProcSeq(t) /\ HasMessageId(u) /\ HasProcSeq(u)

----------------------------------------------------------------------------
(* C13 *)

\* the endpoint has answered a request for which the client produced an outcome
Answered_Outcome == pc = "responded" /\ finalized = 1

\* the failed outcomes the endpoint answers as an HTTP error
AnsweredAsError(o) == ~o.success /\ o.http_status >= 500

\* C13: whether the audit-log write commits or fails, the endpoint answers
\* the same: the failure is not raised (no internal-error answer), and the
\* status and message of the answer are those computed from the outcome.
C13_LogFailureInvisible ==
    (Answered_Outcome /\ log_calls = 1) =>
        /\ raised = NoExc
        /\ http.kind \in {"api_response", "http_exception"}
        /\ http.message = response.message
        /\ http.status_code = IF AnsweredAsError(response) THEN response.http_status ELSE 200

\* a successful outcome answered although its record could not be written
C13_Witness ==
    /\ Answered_Outcome /\ log_calls = 1 /\ audit = <<>>
    /\ response.success
    /\ http.kind = "api_response" /\ http.success

----------------------------------------------------------------------------
(* C14 *)

\* C14: every request for which the client produced an outcome leads to
\* exactly one audit-record write, made before the HTTP response is produced,
\* also when the outcome is a failure answered as an HTTP error; the record
\* written carries that request and that outcome.
C14_OneAuditWriteBeforeAnswer ==
    /\ log_calls <= 1 /\ Len(audit) <= log_calls
    /\ pc \in {"idle", "endpoint", "try", "except", "finally", "returned"} =>
          log_calls = 0 /\ http.kind = "none"
    /\ pc = "logged" => log_calls = 1 /\ http.kind = "none"
    /\ Answered_Outcome => log_calls = 1
    /\ audit # <<>> =>
          /\ audit[1].transaction_type = (IF IsAction THEN "action" ELSE "query")
          /\ audit[1].imei = req.data["imei"]
          /\ audit[1].request_payload = req.data
          /\ audit[1].success = response.success
          /\ audit[1].http_status = response.http_status
          /\ audit[1].response_message = response.message
          /\ audit[1].error_code = response.error_code
          /\ audit[1].raw_response = response.raw_response
          /\ audit[1].response_time_ms = response.response_time_ms

\* a timed-out query answered as an HTTP error after its record was written
C14_Witness ==
    /\ Answered_Outcome /\ IsQuery
    /\ AnsweredAsError(response) /\ http.kind = "http_exception"
    /\ log_calls = 1 /\ Len(audit) = 1

----------------------------------------------------------------------------
(* C15 *)

\* the five fields of the envelope equal those of the outcome
EnvelopeOf(o) ==
    /\ http.kind = "api_response"
    /\ http.success = o.success
    /\ http.http_status = o.http_status
    /\ http.message = o.message
    /\ http.error_code = o.error_code
    /\ http.raw_response = o.raw_response

\* C15 as stated: every outcome, whatever its http_status, is answered with
\* the uniform envelope carrying the outcome's fields.
C15_UniformEnvelope == Answered_Outcome => EnvelopeOf(response)

\* C15 amended: an outcome that is a success or has http_status below 500 is
\* answered with the uniform envelope carrying its fields; a failure with
\* http_status 500 or more is answered as an HTTP error of that status whose
\* detail is the outcome's message, without the envelope.
C15_EnvelopeOrHttpError ==
    Answered_Outcome =>
        IF AnsweredAsError(response)
        THEN /\ http.kind = "http_exception"
             /\ http.status_code = response.http_status
             /\ http.message = response.message
             /\ http.error_code = NoneT /\ http.raw_response = NoRaw
        ELSE EnvelopeOf(response) /\ http.status_code = 200

\* a rejected action (error code E1) answered with the envelope
C15_Witness ==
    /\ Answered_Outcome /\ IsAction
    /\ ~response.success /\ response.error_code = Some(<<"E", "1">>)
    /\ EnvelopeOf(response)

----------------------------------------------------------------------------
(* C16 *)

\* the call ended in the except block of its client: the POST failed, the
\* status was an error, or the body could not be parsed
EndedInFault ==
    /\ InFlight /\ Returned
    /\ \/ reply.kind = "fault"
       \/ RaisesForStatus(reply.status)
       \/ ~reply.body.wf

\* C16: after an unexpected fault the message of the outcome is a fixed
\* generic string with nothing of the fault in it: calls that differ only in
\* the text of the exception get the same message, in both dialects.
C16_GenericMessage ==
    EndedInFault =>
        /\ response.message.arg = <<>>
        /\ response.message.fmt \in {"Error inesperado en el procesamiento.",
                                     "Error inesperado en la comunicacion: {}"}

\* The part of C16 that holds: the message of Dialect B is one fixed string.
C16_GenericMessageDialectB ==
    (EndedInFault /\ IsQuery) =>
        response.message = Msg("Error inesperado en el procesamiento.", <<>>)

----------------------------------------------------------------------------
(* C17, C18, C19 *)

\* the request in flight is an object of variant v with every always-required
\* field present
AlwaysRequiredPresent(v) ==
    /\ req.variant = v
    /\ req.isDict
    /\ \A f \in RequiredFields(v) : req.data[f].some

\* the request was refused by validation: answered 422, nothing sent
RejectedByValidation ==
    /\ pc = "responded"
    /\ http.kind = "validation_error"
    /\ posts = 0

Present(f) == req.data[f].some
Equals(f, text) == req.data[f].some /\ req.data[f].v = text

\* C17: a register-negative request with every always-required field and
\* tipo_reporte "1" is refused when empleo_violencia is absent, refused when
\* empleo_violencia is "1" and utilizacion_armas or victima_menor_edad is
\* absent, and passes validation when the three are present.
C17_RoboFields ==
    (AlwaysRequiredPresent("registro_negativo") /\ Equals("tipo_reporte", <<"1">>)) =>
        /\ ~Present("empleo_violencia") => RejectedByValidation
        /\ ( /\ Equals("empleo_violencia", <<"1">>)
             /\ ~Present("utilizacion_armas") \/ ~Present("victima_menor_edad") )
              => RejectedByValidation
        /\ ( /\ Equals("empleo_violencia", <<"1">>)
             /\ Present("utilizacion_armas") /\ Present("victima_menor_edad") )
              => ~RejectedByValidation /\ pc # "idle"

C17_Witness ==
    /\ AlwaysRequiredPresent("registro_negativo")
    /\ Equals("tipo_reporte", <<"1">>)
    /\ Equals("empleo_violencia", <<"1">>)
    /\ ~Present("victima_menor_edad")
    /\ RejectedByValidation

\* C18: a modify-positive request with every always-required field and
\* tipo_modificacion "2" or "3" is refused, and nothing is sent, when
\* tipo_identificacion_propietario_anterior or
\* identificacion_propietario_anterior is absent.
C18_PropietarioAnterior ==
    ( /\ AlwaysRequiredPresent("modificacion_positivo")
      /\ Equals("tipo_modificacion", <<"2">>) \/ Equals("tipo_modificacion", <<"3">>)
      /\ \/ ~Present("tipo_identificacion_propietario_anterior")
         \/ ~Present("identificacion_propietario_anterior") )
        => RejectedByValidation

C18_Witness ==
    /\ AlwaysRequiredPresent("modificacion_positivo")
    /\ Equals("tipo_modificacion", <<"3">>)
    /\ ~Present("identificacion_propietario_anterior")
    /\ \A f \in AutorizadoFields : Present(f)
    /\ RejectedByValidation

\* the previous-owner rule of the request in flight is met
PropietarioAnteriorMet ==
    (Equals("tipo_modificacion", <<"2">>) \/ Equals("tipo_modificacion", <<"3">>)) =>
        /\ Present("tipo_identificacion_propietario_anterior")
        /\ Present("identificacion_propietario_anterior")

\* C19: in a modify-positive request the five authorised-person fields are
\* required exactly when tipo_usuario_autorizado is not "0": with "0" a request
\* omitting them passes validation, with "1" or "2" a request omitting any of
\* them is refused.
C19_AutorizadoUnlessZero ==
    (AlwaysRequiredPresent("modificacion_positivo") /\ PropietarioAnteriorMet) =>
        /\ Equals("tipo_usuario_autorizado", <<"0">>)
              => ~RejectedByValidation /\ pc # "idle"
        /\ ( /\ Equals("tipo_usuario_autorizado", <<"1">>)
                   \/ Equals("tipo_usuario_autorizado", <<"2">>)
             /\ \E f \in AutorizadoFields : ~Present(f) )
              => RejectedByValidation

\* The half of C19 the validator does meet: "1" or "2" with an authorised-person
\* field left out is refused.
C19_AutorizadoWhenOneOrTwo ==
    ( /\ AlwaysRequiredPresent("modificacion_positivo")
      /\ Equals("tipo_usuario_autorizado", <<"1">>)
            \/ Equals("tipo_usuario_autorizado", <<"2">>)
      /\ \E f \in AutorizadoFields : ~Present(f) )
        => RejectedByValidation

----------------------------------------------------------------------------
(* C20 *)

HookAnswered == hook_pc = "responded"

\* C20: a POST whose content type is text/xml or application/xml is accepted
\* and the handler goes on to its body; a POST with any other content type, or
\* none, is answered with an empty body and status 404 and its body is never
\* decoded or parsed.
C20_ContentTypeGate ==
    HookAnswered =>
        IF hook_request.content_type \in {Header("text/xml"), Header("application/xml")}
        THEN hook_reached \in {"decode", "parse", "tipo_msg", "tipo_respuesta", "ack"}
        ELSE /\ hook_response.status = 404
             /\ hook_response.body = EmptyPage
             /\ hook_reached = "content_type"

C20_Witness ==
    /\ HookAnswered
    /\ hook_request.content_type = Header("application/json")
    /\ hook_request.body.wf
    /\ HandleSrtmResponse([hook_request EXCEPT !.content_type = Header("text/xml")]).response
          = AckResponse
    /\ hook_response = Empty(404)

----------------------------------------------------------------------------
(* C21, C22, C23 *)

\* the five codes of the callbacks
KnownCodes == {Decimal(1002), Decimal(2002), Decimal(3002), Decimal(4002), Decimal(5002)}

\* the wrapper element of each code
WrapperOf(code) ==
    CASE code = Decimal(1002) -> "RespuestaRegistroPositivo"
      [] code = Decimal(2002) -> "RespuestaRegistroNegativo"
      [] code = Decimal(3002) -> "RespuestaCancelacionRegistroNegativo"
      [] code = Decimal(4002) -> "RespuestaModificacionRegistroPositivo"
      [] OTHER -> "RespuestaCancelacionRegistroPositivo"

\* the callback answered had an accepted content type and a body that was
\* decoded and parsed into a tree, and nothing unexpected went wrong
HookParsed ==
    /\ HookAnswered
    /\ hook_request.content_type \in {Header("text/xml"), Header("application/xml")}
    /\ hook_request.body.utf8 /\ hook_request.body.wf
    /\ ~hook_request.fault

\* the document carries a message-type field with one of the five codes
HasKnownTipoMsg(root) ==
    /\ HasBeneath(root, "TipoMsg")
    /\ CharData(FirstBeneath(root, "TipoMsg")) \in KnownCodes

TipoMsgOf(root) == CharData(FirstBeneath(root, "TipoMsg"))

\* some element named wrapper beneath the root has a TipoRespuesta child
HasResultUnder(root, wrapper) ==
    \E i \in DOMAIN Beneath(root) :
        Beneath(root)[i].tag = wrapper /\ HasChild(Beneath(root)[i], "TipoRespuesta")

\* a SOAP envelope whose only payload element is receiveMessageReturn with the
\* text ack
IsAckEnvelope(page) ==
    /\ page.kind = "xml"
    /\ page.root.tag = "Envelope"
    /\ Len(SelectSeq(Beneath(page.root), LAMBDA n : n.tag = "receiveMessageReturn")) = 1
    /\ CharData(FirstBeneath(page.root, "receiveMessageReturn")) = Ack
    /\ \A i \in DOMAIN Beneath(page.root) :
          Beneath(page.root)[i].tag # "receiveMessageReturn"
             => ~Beneath(page.root)[i].text.some

RECURSIVE WithTipoRespuesta(_, _)
WithTipoRespuesta(node, text) ==
    [tag |-> node.tag,
     text |-> IF node.tag = "TipoRespuesta" THEN text ELSE node.text,
     kids |-> [i \in DOMAIN node.kids |-> WithTipoRespuesta(node.kids[i], text)]]

\* the texts a result code may have: accepted, rejected, a word, none
TipoRespuestaTexts == {Some(<<"1">>), Some(<<"2">>), Some(<<"0">>), Some(<<"n", "o">>), NoneT}

\* C23: the answer does not depend on the result code: the same callback with
\* any other text in TipoRespuesta gets the same status, headers and body.
C23_ResultCodeNotReflected ==
    HookAnswered =>
        \A text \in TipoRespuestaTexts :
            HandleSrtmResponse(
                [hook_request EXCEPT !.body.root = WithTipoRespuesta(@, text)]).response
            = hook_response

C23_Witness ==
    /\ HookParsed
    /\ HasKnownTipoMsg(hook_request.body.root)
    /\ HasResultUnder(hook_request.body.root, WrapperOf(TipoMsgOf(hook_request.body.root)))
    /\ \E i \in DOMAIN Beneath(hook_request.body.root) :
          /\ Beneath(hook_request.body.root)[i].tag = "TipoRespuesta"
          /\ Beneath(hook_request.body.root)[i].text = Some(<<"2">>)
    /\ hook_response = AckResponse

----------------------------------------------------------------------------
(* C24 *)

HookAccepted ==
    /\ HookAnswered
    /\ hook_request.content_type \in {Header("text/xml"), Header("application/xml")}

\* C24: with an accepted content type every failure is answered with an empty
\* body: a body that cannot be parsed, or cannot be decoded, gets an empty 404;
\* a known type without its wrapper and result element gets an empty 404; any
\* other fault gets an empty 500; so every answer but the ack envelope is empty
\* with a status of 200, 404 or 500.
C24_FailuresAnsweredEmpty ==
    HookAccepted =>
        /\ ( /\ ~hook_request.fault
             /\ ~hook_request.body.utf8 \/ ~hook_request.body.wf )
              => hook_response = Empty(404)
        /\ ( /\ HookParsed
             /\ HasKnownTipoMsg(hook_request.body.root)
             /\ ~HasResultUnder(hook_request.body.root,
                                WrapperOf(TipoMsgOf(hook_request.body.root))) )
              => hook_response = Empty(404)
        /\ (hook_request.body.utf8 /\ hook_request.fault) => hook_response = Empty(500)
        /\ ~IsAckEnvelope(hook_response.body) =>
              /\ hook_response.body = EmptyPage
              /\ hook_response.status \in {200, 404, 500}

\* What holds of C24: the same, for the bodies that decode as UTF-8.
C24_FailuresAnsweredEmptyWhenDecodable ==
    (HookAccepted /\ hook_request.body.utf8) =>
        /\ (~hook_request.fault /\ ~hook_request.body.wf) => hook_response = Empty(404)
        /\ ( /\ HookParsed
             /\ HasKnownTipoMsg(hook_request.body.root)
             /\ ~HasResultUnder(hook_request.body.root,
                                WrapperOf(TipoMsgOf(hook_request.body.root))) )
              => hook_response = Empty(404)
        /\ hook_request.fault => hook_response = Empty(500)
        /\ ~IsAckEnvelope(hook_response.body) =>
              /\ hook_response.body = EmptyPage
              /\ hook_response.status \in {200, 404, 500}

----------------------------------------------------------------------------
(* C25 *)

\* the registry answered the POST with a structured SOAP fault
GotSoapFault ==
    /\ IsAction /\ Returned
    /\ reply.kind = "http"
    /\ reply.body.wf
    /\ HasBeneath(reply.body.root, "Fault")
    /\ HasChild(FirstBeneath(reply.body.root, "Fault"), "faultstring")

FaultString == CharData(FirstChild(FirstBeneath(reply.body.root, "Fault"), "faultstring"))

\* C25: a structured SOAP fault from the Dialect-A registry becomes a failure
\* outcome whose message is "Error SOAP: " followed by the fault text, not the
\* generic unexpected-error message.
C25_SoapFaultMessage ==
    GotSoapFault =>
        /\ ~response.success
        /\ response.message = Msg("Error SOAP: {}", FaultString)

\* What the code does with a SOAP fault: the outcome is a failure, and its
\* message is the one of an HTTP error or of a rejected request.
C25_SoapFaultIsFailure ==
    GotSoapFault =>
        /\ ~response.success
        /\ response.message.fmt \in {"Error inesperado en la comunicacion: {}",
                                     "Solicitud {} rechazada por el servidor."}

----------------------------------------------------------------------------
(* C26 *)

\* C26: whatever the seed and however many identifiers were drawn, a message
\* identifier has 5 + 8 + 7 characters and a process identifier 5 + 8 + 2 + 5:
\* the sequence part never outgrows its width.
C26_FixedWidthIds ==
    \A t \in Tasks :
        /\ HasMessageId(t) => Len(tasks[t].message_id) = 5 + 8 + 7
        /\ HasProcSeq(t) =>
              /\ Len(tasks[t].proc_seq) = 5
              /\ Len(tasks[t].process_id) = 5 + 8 + 2 + 5

\* What holds of C26: the message identifier keeps its 20 characters while the
\* counter is below 10^7, and the process identifier is 15 characters followed
\* by the decimal digits of the counter, five or more.
C26_WidthWhileCounterFits ==
    \A t \in Tasks :
        /\ (HasMessageId(t) /\ message_counter < 10000000) =>
              Len(tasks[t].message_id) = 5 + 8 + 7
        /\ HasProcSeq(t) =>
              /\ Len(tasks[t].proc_seq) >= 5
              /\ Len(tasks[t].process_id) = 5 + 8 + 2 + Len(tasks[t].proc_seq)

----------------------------------------------------------------------------
(* C27, C28 *)

Built == build_pc = "built"

\* every element of the document built, header first
BuiltElements == build_xml.cabecera \o build_xml.cuerpo.kids

HasElement(tag) == \E i \in DOMAIN BuiltElements : BuiltElements[i].tag = tag

HasEmptyElement(tag) ==
    \E i \in DOMAIN BuiltElements : BuiltElements[i].tag = tag /\ BuiltElements[i].text = <<>>

\* the three robbery fields of a register-negative request
RoboFields ==
    {<<"empleo_violencia", "EmpleoViolencia">>, <<"utilizacion_armas", "UtilizacionArmas">>,
     <<"victima_menor_edad", "VictimaMenorEdad">>}

\* the fields each builder writes only on a condition, with their elements
ConditionalFields(v) ==
    {<<"observaciones", "Observaciones">>}
    \cup CASE v = "registro_positivo" ->
                {<<"imsi", "Imsi">>, <<"msisdn", "Msisdn">>,
                 <<"nombre_razon_social_propietario", "NombreRazonSocialPropietario">>,
                 <<"direccion_propietario", "DireccionPropietario">>,
                 <<"telefono_contacto_propietario", "TelefonoContactoPropietario">>}
           [] v = "registro_negativo" ->
                {<<"nombre_reporte", "NombreRazonSocialReporte">>,
                 <<"tipo_identificacion_reporte", "TipoIdentificacionReporte">>,
                 <<"identificacion_reporte", "IdentificacionReporte">>,
                 <<"direccion_reporte", "DireccionReporte">>,
                 <<"telefono_reporte", "TelefonoContactoReporte">>,
                 <<"departamento_reporte", "DepartamentoReporte">>,
                 <<"ciudad_reporte", "CiudadReporte">>,
                 <<"correo_electronico", "CorreoElectronico">>} \cup RoboFields
           [] v = "modificacion_positivo" ->
                {<<"imsi", "Imsi">>, <<"msisdn", "Msisdn">>,
                 <<"nombre_razon_social_autorizado", "NombreRazonSocialAutorizado">>,
                 <<"tipo_usuario_autorizado", "TipoUsuarioAutorizado">>,
                 <<"tipo_identificacion_autorizado", "TipoIdentificacionAutorizado">>,
                 <<"identificacion_autorizado", "IdentificacionAutorizado">>,
                 <<"telefono_contacto_autorizado", "TelefonoContactoAutorizado">>,
                 <<"tipo_identificacion_propietario_anterior",
                   "TipoIdentificacionPropietarioAnterior">>,
                 <<"identificacion_propietario_anterior",
                   "IdentificacionPropietarioAnterior">>}
           [] OTHER -> {}

\* the element of the field is there exactly when the value is not empty
PresentIffNonEmpty(ft) ==
    /\ HasElement(ft[2]) <=> Truthy(build_req.data[ft[1]])
    /\ ~HasEmptyElement(ft[2])

\* C27: in the document of every action builder each conditionally written
\* field has its element exactly when its value is non-empty, so none of them
\* gives an empty element, for a missing value and for '' alike.
C27_NoEmptyElements ==
    Built => \A ft \in ConditionalFields(build_req.variant) : PresentIffNonEmpty(ft)

\* What holds of C27: the same for every such field but the three robbery
\* fields, which are written whenever they are not None.
C27_NoEmptyElementsButRobo ==
    Built =>
        /\ \A ft \in ConditionalFields(build_req.variant) \ RoboFields : PresentIffNonEmpty(ft)
        /\ \A ft \in RoboFields :
              build_req.variant = "registro_negativo" =>
                  (HasElement(ft[2]) <=> build_req.data[ft[1]].some)

\* the entities html.escape writes
Entities ==
    {<<"&", "a", "m", "p", ";">>, <<"&", "l", "t", ";">>, <<"&", "g", "t", ";">>,
     <<"&", "q", "u", "o", "t", ";">>, <<"&", "#", "x", "2", "7", ";">>}

\* no < > " ' in the text, and every & begins an entity
NoBareMetacharacter(t) ==
    \A i \in DOMAIN t :
        /\ t[i] \notin {"<", ">", "\"", "'"}
        /\ t[i] = "&" =>
              \E e \in Entities :
                  i + Len(e) - 1 <= Len(t) /\ SubSeq(t, i, i + Len(e) - 1) = e

\* the elements whose value is written as it came
RawTags ==
    {"Imei", "TipoUsuarioPropietario", "TipoIdentificacionPropietario", "TipoReporte",
     "TipoModificacion", "EmpleoViolencia", "UtilizacionArmas", "VictimaMenorEdad",
     "TipoUsuarioAutorizado", "TipoIdentificacionAutorizado", "FechaReporte"}

\* C28: for every action request that passes validation the document holds no
\* unescaped metacharacter from the request: each value is escaped when it is
\* written, or validation keeps & < > " ' out of it.
C28_NoBareMetacharacters ==
    Built => \A i \in DOMAIN BuiltElements : NoBareMetacharacter(BuiltElements[i].text)

\* What holds of C28: every value written through _escape_xml is clean.
C28_EscapedValuesClean ==
    Built =>
        \A i \in DOMAIN BuiltElements :
            BuiltElements[i].tag \notin RawTags => NoBareMetacharacter(BuiltElements[i].text)

----------------------------------------------------------------------------
(* C29 *)

\* C29: in every outcome a client returns, success means no error code and the
\* status that was received, which is below 400; an outcome that came through
\* an exception handler is never a success; and the timestamp of the outcome
\* is the one taken when the call started.
C29_SuccessIsClean ==
    (InFlight /\ Returned) =>
        /\ response.success =>
              /\ response.error_code = NoneT
              /\ reply.kind = "http"
              /\ response.http_status = reply.status
              /\ reply.status < 400
        /\ EndedInFault => ~response.success
        /\ response.error_code.some => ~response.success
        /\ response.timestamp = start_time

C29_Witness ==
    /\ IsQuery /\ Returned
    /\ response.success
    /\ response.http_status = 200
    /\ response.timestamp = start_time
    /\ now > start_time

----------------------------------------------------------------------------
(* C30 *)

\* a validated request of this dialect has reached its endpoint
ReachedEndpoint(d) == InFlight /\ RequestValid(req) /\ Dialect(req.variant) = d

ClientOf(d) == IF d = "A" THEN soap_client ELSE consulta_client

\* the 503 of an endpoint whose client is None
Unavailable503 ==
    /\ http.kind = "http_exception"
    /\ http.status_code = 503
    /\ http.message = Msg("Servicio no disponible", <<>>)

C30_State ==
    /\ (pc = "responded" /\ http.kind = "health") =>
          /\ http.services.soap_client = soap_client
          /\ http.services.consulta_client = consulta_client
    /\ \A d \in {"A", "B"} :
          /\ (ReachedEndpoint(d) /\ ~ClientOf(d)) =>
                /\ posts = 0 /\ log_calls = 0 /\ audit = <<>>
                /\ pc = "responded" => Unavailable503
          /\ (ReachedEndpoint(d) /\ ClientOf(d)) =>
                /\ ~Unavailable503
                /\ pc = "responded" => posts = 1 /\ log_calls = 1

\* C30: a client that failed to initialise stays unavailable as long as the
\* process runs: /health reports false for that client and true for the other,
\* every endpoint of its dialect answers 503 with no transport call and no
\* audit write, and the endpoints of the other dialect work as ever.
C30_UnavailableClient ==
    /\ []C30_State
    /\ [][soap_client' = soap_client /\ consulta_client' = consulta_client]_vars

C30_Witness ==
    /\ ~soap_client /\ consulta_client
    /\ IsAction /\ RequestValid(req)
    /\ pc = "responded"
    /\ Unavailable503
    /\ posts = 0 /\ log_calls = 0

====
